---- MODULE Spec2Model ----
(***************************************************************************)
(* Orchestration engine of drama_processor: the state manager (state.py),  *)
(* the batch orchestrators (orchestrator.py) and the resumable/concurrent  *)
(* orchestrator assembled in main.py.                                      *)
(*                                                                         *)
(* A work unit is a drama directory under one root; it is identified by    *)
(* its directory name, so units are modelled by the number of their name   *)
(* (1 is drama-0001, ...).  An output path is modelled by the unit, the    *)
(* operation that wrote it and the number of the file.                     *)
(***************************************************************************)
EXTENDS Integers, Sequences, FiniteSets, TLC

\* ---- bounds ------------------------------------------------------------
MaxUnits == 2
MaxCalls == 2
MaxWorkers == 2
MaxRuns == 2
MaxFiles == 3
MaxNames == 3
MaxEntries == 2
MaxStrategies == 2

\* RetryStrategy.__init__: max_retries
MaxRetries == 3

Units == 1..MaxUnits

\* operation_map of Orchestrator.process_batch
Operations == {"merge", "separate", "transcode"}

\* the operations the runs and the state store are driven with
SampleOperations == {"merge", "transcode"}

\* error texts of failed results (every failure of the repository carries text)
ErrorMessages == {"io error", "invalid structure"}

NoMessage == "None"
UnknownError == "unknown error"

VARIABLES
    states,      \* StateManager.states: key -> ProcessingState
    stateFile,   \* the state file: [exists, json, order, data: key -> dict]
    disk,        \* the output paths that exist on disk
    now,         \* datetime.now(), read by every mark call
    latest,      \* history: per key, the arguments of the latest mark call
    call,        \* the latest state-store call or file-system event
    retBool,     \* value returned by the latest is_completed
    retList,     \* value returned by the latest get_pending_tasks
    ret,         \* what the latest call returned or raised
    config,      \* ProcessingConfig: enable_resume, generate_report
    maxWorkers,  \* config.max_workers
    cb,          \* the progress callback handed to process_batch
    pc,          \* where the run is: idle, seq, conc, mark, returned, aborted,
                 \* rejected, crashed
    runs,        \* the runs started so far
    operation,   \* process_batch: operation
    skip,        \* process_batch: skip_completed
    pendingDirs, \* the units dispatched (drama_dirs after the filter)
    results,     \* process_batch: results
    task,        \* concurrent mode: per index, the future of process_single
    collected,   \* concurrent mode: the indices in the order as_completed gave them
    completedCount, \* concurrent mode: completed_count[0]
    markIdx,     \* position of the loop that updates the state
    plan,        \* history: per unit, how its stage behaved when it was run
    log,         \* history: per unit, the notifications and handler runs
    startStates, \* history: the records when the batch started
    startDisk,   \* history: the output paths on disk when the batch started
    lock,        \* self._lock: 0 for None, else the lock object (named by its creator)
    held,        \* per lock object, the worker thread that holds it, 0 when free
    worker,      \* per worker thread, where it is in process_single
    demoted      \* history: the keys a call of is_completed or get_pending_tasks has
                 \* reported not completed while their record said completed

storeVars == <<states, stateFile, disk, now, latest>>
lockVars == <<lock, held, worker>>
apiVars == <<call, retBool, retList, ret>>
batchVars == <<config, maxWorkers, cb, pc, runs, operation, skip, pendingDirs, results, task,
               collected, completedCount, markIdx, plan, log, startStates, startDisk, lockVars>>
vars == <<states, stateFile, disk, now, latest, call, retBool, retList, ret,
          config, maxWorkers, cb, pc, runs, operation, skip, pendingDirs, results, task,
          collected, completedCount, markIdx, plan, log, startStates, startDisk,
          lock, held, worker, demoted>>

EmptyMap == [k \in {} |-> 0]

Range(s) == {s[i] : i \in DOMAIN s}

\* the lists of at most n members of S
SeqsUpTo(S, n) == UNION {[1..m -> S] : m \in 0..n}

\* ---- models.py: ProcessingStatus ---------------------------------------
\* enum member -> its value, as written to the state file
ProcessingStatusValue ==
    [PENDING |-> "pending", IN_PROGRESS |-> "in_progress", COMPLETED |-> "completed",
     FAILED |-> "failed", SKIPPED |-> "skipped"]

StatusMembers == DOMAIN ProcessingStatusValue

\* ProcessingStatus(value): the member with that value (ValueError when none)
IsStatusValue(v) == \E m \in StatusMembers : ProcessingStatusValue[m] = v

ProcessingStatusOf(v) == CHOOSE m \in StatusMembers : ProcessingStatusValue[m] = v

\* ---- paths -------------------------------------------------------------
OutputFile(u, o, n) == [unit |-> u, op |-> o, n |-> n]

\* str(path) / Path(str): one text per path
PathStr(p) == <<"path", p>>

PathOf(s) == s[2]

\* ---- state.py: StateManager --------------------------------------------
\* f"{drama_dir.name}:{operation}"
GetStateKey(u, o) == <<u, o>>

\* save_state: every ProcessingState becomes a dict, the status by its value
SaveStateData(st) ==
    [k \in DOMAIN st |->
        [drama_dir |-> st[k].drama_dir,
         operation |-> st[k].operation,
         status |-> ProcessingStatusValue[st[k].status],
         timestamp |-> st[k].timestamp,
         output_files |-> st[k].output_files,
         error_message |-> st[k].error_message]]

\* the keys of a set in some order
RECURSIVE SeqOf(_)
SeqOf(S) ==
    IF S = {} THEN <<>>
    ELSE LET k == CHOOSE x \in S : TRUE IN <<k>> \o SeqOf(S \ {k})

\* the state file: whether it exists, what its text parses to ("invalid" when it
\* is no JSON text, else the kind of the top-level value), and for an object
\* its members and the order the text lists them in
NoFile == [exists |-> FALSE, json |-> "none", order |-> <<>>, data |-> EmptyMap]

\* save_state: the file is rewritten with the whole dictionary
SaveState(st) ==
    [exists |-> TRUE, json |-> "object", order |-> SeqOf(DOMAIN st),
     data |-> SaveStateData(st)]

\* what building one ProcessingState from a member of the file raises:
\* TypeError when the member is no object, KeyError at the first field that is
\* missing, ValueError when the status value is no member of ProcessingStatus
RecordError(rec) ==
    IF "json" \in DOMAIN rec THEN "TypeError"
    ELSE IF "drama_dir" \notin DOMAIN rec THEN "KeyError"
    ELSE IF "operation" \notin DOMAIN rec THEN "KeyError"
    ELSE IF "status" \notin DOMAIN rec THEN "KeyError"
    ELSE IF ~IsStatusValue(rec.status) THEN "ValueError"
    ELSE IF "timestamp" \notin DOMAIN rec THEN "KeyError"
    ELSE IF "output_files" \notin DOMAIN rec THEN "KeyError"
    ELSE "none"

\* the ProcessingState built from a member: error_message is read with get
LoadRecord(rec) ==
    [drama_dir |-> rec.drama_dir,
     operation |-> rec.operation,
     status |-> ProcessingStatusOf(rec.status),
     timestamp |-> rec.timestamp,
     output_files |-> rec.output_files,
     error_message |-> IF "error_message" \in DOMAIN rec THEN rec.error_message
                       ELSE NoMessage]

\* the exceptions load_state catches
CaughtByLoad == {"JSONDecodeError", "KeyError", "ValueError"}

\* load_state: what it raises and what self.states is afterwards
LoadOutcome(f) ==
    IF ~f.exists THEN [raised |-> "none", states |-> EmptyMap]
    ELSE IF f.json = "invalid"
    THEN [raised |-> IF "JSONDecodeError" \in CaughtByLoad THEN "none"
                     ELSE "JSONDecodeError",
          states |-> EmptyMap]
    ELSE IF f.json # "object" THEN [raised |-> "AttributeError", states |-> EmptyMap]
    ELSE IF \A k \in DOMAIN f.data : RecordError(f.data[k]) = "none"
    THEN [raised |-> "none", states |-> [k \in DOMAIN f.data |-> LoadRecord(f.data[k])]]
    ELSE LET i == CHOOSE n \in DOMAIN f.order :
                      /\ RecordError(f.data[f.order[n]]) # "none"
                      /\ \A j \in 1..(n - 1) : RecordError(f.data[f.order[j]]) = "none"
             e == RecordError(f.data[f.order[i]])
         IN IF e \in CaughtByLoad
            THEN [raised |-> "none", states |-> EmptyMap]
            ELSE [raised |-> e,
                  states |-> [k \in {f.order[j] : j \in 1..(i - 1)} |->
                                 LoadRecord(f.data[k])]]

\* load_state, mutated: the file is not read, the new manager starts empty
LoadStateEmpty(f) == EmptyMap

\* load_state: self.states after the call
LoadState(f) == LoadOutcome(f).states

\* is_completed, mutated: any record of the key counts as completed
IsCompletedAnyRecord(st, dk, u, o) == GetStateKey(u, o) \in DOMAIN st

\* is_completed, mutated: the output files are not looked at
IsCompletedNoFileCheck(st, dk, u, o) ==
    LET key == GetStateKey(u, o) IN
    key \in DOMAIN st /\ st[key].status = "COMPLETED"

\* is_completed
IsCompleted(st, dk, u, o) ==
    LET key == GetStateKey(u, o) IN
    IF key \notin DOMAIN st THEN FALSE
    ELSE IF st[key].status # "COMPLETED" THEN FALSE
    ELSE IF \E i \in DOMAIN st[key].output_files :
                PathOf(st[key].output_files[i]) \notin dk THEN FALSE
    ELSE TRUE

\* mark_completed, mutated: an existing record of the key is kept
CompletedStatesKeepOld(st, u, o, outs, ts) ==
    st @@ (GetStateKey(u, o) :>
        [drama_dir |-> u, operation |-> o, status |-> "COMPLETED", timestamp |-> ts,
         output_files |-> [i \in DOMAIN outs |-> PathStr(outs[i])],
         error_message |-> NoMessage])

\* mark_completed: self.states[key] = ProcessingState(...)
CompletedStates(st, u, o, outs, ts) ==
    (GetStateKey(u, o) :>
        [drama_dir |-> u, operation |-> o, status |-> "COMPLETED", timestamp |-> ts,
         output_files |-> [i \in DOMAIN outs |-> PathStr(outs[i])],
         error_message |-> NoMessage]) @@ st

\* mark_failed: self.states[key] = ProcessingState(...)
FailedStates(st, u, o, msg, ts) ==
    (GetStateKey(u, o) :>
        [drama_dir |-> u, operation |-> o, status |-> "FAILED", timestamp |-> ts,
         output_files |-> <<>>,
         error_message |-> msg]) @@ st

\* get_pending_tasks, mutated: the completed units are kept, the others dropped
RECURSIVE GetCompletedTasks(_, _, _, _)
GetCompletedTasks(st, dk, dirs, o) ==
    IF dirs = <<>> THEN <<>>
    ELSE (IF IsCompleted(st, dk, Head(dirs), o) THEN <<Head(dirs)>> ELSE <<>>)
             \o GetCompletedTasks(st, dk, Tail(dirs), o)

\* get_pending_tasks: the loop appends each unit that is not completed
RECURSIVE GetPendingTasks(_, _, _, _)
GetPendingTasks(st, dk, dirs, o) ==
    IF dirs = <<>> THEN <<>>
    ELSE (IF ~IsCompleted(st, dk, Head(dirs), o) THEN <<Head(dirs)>> ELSE <<>>)
             \o GetPendingTasks(st, dk, Tail(dirs), o)

\* is_completed returning False at the check of the output files: the keys of
\* the units whose record is completed and names an output that is missing
Demoted(st, dk, units, o) ==
    {GetStateKey(u, o) : u \in {x \in units :
        /\ GetStateKey(x, o) \in DOMAIN st
        /\ st[GetStateKey(x, o)].status = "COMPLETED"
        /\ ~IsCompleted(st, dk, x, o)}}

\* mark_completed as a step: the record is set, the file is written, time passes
MarkCompleted(u, o, outs) ==
    /\ states' = CompletedStates(states, u, o, outs, now)
    /\ stateFile' = SaveState(states')
    /\ latest' = (GetStateKey(u, o) :>
                    [status |-> "COMPLETED", outs |-> outs, msg |-> NoMessage, ts |-> now])
                 @@ latest
    /\ now' = now + 1

\* mark_failed as a step
MarkFailed(u, o, msg) ==
    /\ states' = FailedStates(states, u, o, msg, now)
    /\ stateFile' = SaveState(states')
    /\ latest' = (GetStateKey(u, o) :>
                    [status |-> "FAILED", outs |-> <<>>, msg |-> msg, ts |-> now])
                 @@ latest
    /\ now' = now + 1

\* ---- the state store driven through its interface ----------------------
\* output lists handed to mark_completed: no file, two files
OutputLists(u, o) ==
    {<<>>, <<OutputFile(u, o, 1), OutputFile(u, o, 2)>>}

\* unit lists handed to get_pending_tasks: every list without repetition
UnitLists ==
    UNION {{l \in [1..n -> Units] : \A i, j \in 1..n : i # j => l[i] # l[j]} : n \in 0..MaxUnits}

RecordedPaths ==
    UNION {{PathOf(states[k].output_files[i]) : i \in DOMAIN states[k].output_files} :
              k \in DOMAIN states}

NoCall == [kind |-> "none", unit |-> 0, op |-> "", list |-> <<>>]

\* no call whose outcome is kept has been made
NoRet == [raised |-> "not called", value |-> "none"]

\* ---- models.py: ProcessingResult -----------------------------------------
\* output_path is a list: empty for None, else the one path
NoResult == [status |-> "NONE", input_path |-> 0, output_path |-> <<>>, error_message |-> NoMessage]

NoTask == [st |-> "queued", exc |-> FALSE, index |-> 0, result |-> NoResult]

NoPlan == [err |-> "not run", failures |-> 0]

\* a worker thread of the pool that waits for a work item
NoWorker == [pos |-> "idle", phase |-> "none", i |-> 0, ref |-> 0]

\* no batch is running: the state of a process that has not called process_batch
BatchIdle ==
    /\ config = [enable_resume |-> TRUE, generate_report |-> FALSE]
    /\ maxWorkers = 1
    /\ cb = "none"
    /\ pc = "idle"
    /\ runs = 0
    /\ operation = ""
    /\ skip = FALSE
    /\ pendingDirs = <<>>
    /\ results = <<>>
    /\ task = <<>>
    /\ collected = <<>>
    /\ completedCount = 0
    /\ markIdx = 0
    /\ plan = [u \in Units |-> NoPlan]
    /\ log = [u \in Units |-> <<>>]
    /\ startStates = EmptyMap
    /\ startDisk = {}
    /\ lock = 0
    /\ held = [l \in 1..MaxWorkers |-> 0]
    /\ worker = [w \in 1..MaxWorkers |-> NoWorker]

StoreInit ==
    /\ states = EmptyMap
    /\ stateFile = NoFile
    /\ disk = {}
    /\ now = 0
    /\ demoted = {}
    /\ latest = EmptyMap
    /\ call = NoCall
    /\ retBool = FALSE
    /\ retList = <<>>
    /\ ret = NoRet
    /\ BatchIdle

CallMarkCompleted ==
    \E u \in Units, o \in SampleOperations :
        \E outs \in OutputLists(u, o) :
            /\ now < MaxCalls
            /\ MarkCompleted(u, o, outs)
            /\ call' = [kind |-> "mark_completed", unit |-> u, op |-> o, list |-> <<>>]
            /\ retBool' = FALSE
            /\ retList' = <<>>
            /\ ret' = NoRet
            /\ demoted' = demoted \ {GetStateKey(u, o)}
            /\ UNCHANGED <<disk, batchVars>>

CallMarkFailed ==
    \E u \in Units, o \in SampleOperations, msg \in ErrorMessages :
        /\ now < MaxCalls
        /\ MarkFailed(u, o, msg)
        /\ call' = [kind |-> "mark_failed", unit |-> u, op |-> o, list |-> <<>>]
        /\ retBool' = FALSE
        /\ retList' = <<>>
        /\ ret' = NoRet
        /\ demoted' = demoted \ {GetStateKey(u, o)}
        /\ UNCHANGED <<disk, batchVars>>

\* is_completed, mutated: a completed record whose output is missing is dropped
\* from the records and the file is saved
CallIsCompletedDemoting ==
    \E u \in Units, o \in SampleOperations :
        /\ retBool' = IsCompleted(states, disk, u, o)
        /\ call' = [kind |-> "is_completed", unit |-> u, op |-> o, list |-> <<>>]
        /\ retList' = <<>>
        /\ ret' = NoRet
        /\ demoted' = demoted \cup Demoted(states, disk, {u}, o)
        /\ states' = [k \in DOMAIN states \ Demoted(states, disk, {u}, o) |-> states[k]]
        /\ stateFile' = SaveState(states')
        /\ UNCHANGED <<disk, now, latest, batchVars>>

\* is_completed called through the interface
CallIsCompleted ==
    \E u \in Units, o \in SampleOperations :
        /\ retBool' = IsCompleted(states, disk, u, o)
        /\ call' = [kind |-> "is_completed", unit |-> u, op |-> o, list |-> <<>>]
        /\ retList' = <<>>
        /\ ret' = NoRet
        /\ demoted' = demoted \cup Demoted(states, disk, {u}, o)
        /\ UNCHANGED <<storeVars, batchVars>>

\* an output file a record names is written (by a stage, by the operator)
CreatePath ==
    \E p \in RecordedPaths \ disk :
        /\ disk' = disk \cup {p}
        /\ call' = NoCall
        /\ retBool' = FALSE
        /\ retList' = <<>>
        /\ ret' = NoRet
        /\ UNCHANGED <<states, stateFile, now, latest, batchVars, demoted>>

\* an output file is deleted from outside
DeletePath ==
    \E p \in disk :
        /\ disk' = disk \ {p}
        /\ call' = NoCall
        /\ retBool' = FALSE
        /\ retList' = <<>>
        /\ ret' = NoRet
        /\ UNCHANGED <<states, stateFile, now, latest, batchVars, demoted>>

\* StateManager(state_file): a new manager loads the file
NewStateManager ==
    /\ states' = LoadState(stateFile)
    /\ call' = [kind |-> "load_state", unit |-> 0, op |-> "", list |-> <<>>]
    /\ retBool' = FALSE
    /\ retList' = <<>>
    /\ ret' = [raised |-> LoadOutcome(stateFile).raised, value |-> "none"]
    /\ UNCHANGED <<stateFile, disk, now, latest, batchVars, demoted>>

StoreNext ==
    \/ CallMarkCompleted
    \/ CallMarkFailed
    \/ CallIsCompleted
    \/ CreatePath
    \/ DeletePath
    \/ NewStateManager

SpecStore == StoreInit /\ [][StoreNext]_vars

\* ---- mark_completed / mark_failed step by step, with crashes ----------------
saveRest == <<config, maxWorkers, cb, runs, operation, skip, pendingDirs, results, task,
              collected, completedCount, markIdx, plan, log, startDisk, lockVars, demoted>>

\* the file between open(state_file, 'w') and the end of json.dump: empty, or
\* the beginning of the text of an object, which json.load rejects
TruncatedFile == [exists |-> TRUE, json |-> "invalid", order |-> <<>>, data |-> EmptyMap]

\* mark_completed / mark_failed up to the call of save_state: the record of the
\* key is replaced in memory; startStates keeps the records the file held when
\* the last call began or ended
BeginMark ==
    /\ pc = "idle"
    /\ now < MaxCalls
    /\ \E u \in Units, o \in SampleOperations :
          \/ \E outs \in OutputLists(u, o) :
                /\ states' = CompletedStates(states, u, o, outs, now)
                /\ latest' = (GetStateKey(u, o) :>
                                [status |-> "COMPLETED", outs |-> outs, msg |-> NoMessage, ts |-> now])
                             @@ latest
                /\ call' = [kind |-> "mark_completed", unit |-> u, op |-> o, list |-> <<>>]
          \/ \E msg \in ErrorMessages :
                /\ states' = FailedStates(states, u, o, msg, now)
                /\ latest' = (GetStateKey(u, o) :>
                                [status |-> "FAILED", outs |-> <<>>, msg |-> msg, ts |-> now])
                             @@ latest
                /\ call' = [kind |-> "mark_failed", unit |-> u, op |-> o, list |-> <<>>]
    /\ now' = now + 1
    /\ startStates' = LoadState(stateFile)
    /\ pc' = "save_state"
    /\ UNCHANGED <<stateFile, disk, retBool, retList, ret, saveRest>>

\* save_state: open(self.state_file, 'w') truncates the file
SaveOpen ==
    /\ pc = "save_state"
    /\ stateFile' = TruncatedFile
    /\ pc' = "json.dump"
    /\ UNCHANGED <<states, disk, now, latest, apiVars, startStates, saveRest>>

\* save_state: json.dump has written the whole object, the file is closed and
\* the call returns
SaveDump ==
    /\ pc = "json.dump"
    /\ stateFile' = SaveState(states)
    /\ startStates' = LoadState(stateFile')
    /\ pc' = "idle"
    /\ UNCHANGED <<states, disk, now, latest, apiVars, saveRest>>

\* the process dies: what it held in memory is gone, the file stays as it is
CrashInStore ==
    /\ pc \in {"idle", "save_state", "json.dump"}
    /\ states' = EmptyMap
    /\ pc' = "crashed"
    /\ UNCHANGED <<stateFile, disk, now, latest, apiVars, startStates, saveRest>>

\* the next process builds its StateManager from the file
Restart ==
    /\ pc = "crashed"
    /\ states' = LoadState(stateFile)
    /\ startStates' = LoadState(stateFile)
    /\ call' = [kind |-> "load_state", unit |-> 0, op |-> "", list |-> <<>>]
    /\ ret' = [raised |-> LoadOutcome(stateFile).raised, value |-> "none"]
    /\ pc' = "idle"
    /\ UNCHANGED <<stateFile, disk, now, latest, retBool, retList, saveRest>>

SaveNext == BeginMark \/ SaveOpen \/ SaveDump \/ CrashInStore \/ Restart

SpecSave == StoreInit /\ [][SaveNext]_vars

\* ---- load_state over the contents a state file can have ------------------
\* members of a state file: records as save_state writes them, one without the
\* optional error_message, values that are no object, records that lack a
\* field, records whose status is no value of ProcessingStatus
SampleRecords(u, o) ==
    {[drama_dir |-> u, operation |-> o, status |-> "completed", timestamp |-> 0,
      output_files |-> <<PathStr(OutputFile(u, o, 1))>>, error_message |-> NoMessage],
     [drama_dir |-> u, operation |-> o, status |-> "failed", timestamp |-> 0,
      output_files |-> <<>>, error_message |-> "io error"],
     [drama_dir |-> u, operation |-> o, status |-> "completed", timestamp |-> 0,
      output_files |-> <<>>],
     [json |-> "string"],
     [json |-> "array"],
     [operation |-> o, status |-> "completed", timestamp |-> 0, output_files |-> <<>>],
     [drama_dir |-> u, operation |-> o, timestamp |-> 0, output_files |-> <<>>],
     [drama_dir |-> u, operation |-> o, status |-> "failed", timestamp |-> 0],
     [drama_dir |-> u, operation |-> o, status |-> "done", timestamp |-> 0,
      output_files |-> <<>>, error_message |-> NoMessage]}

\* the kinds of JSON value a text can parse to
JsonKinds == {"object", "array", "string", "number", "true", "null"}

Orders(K) == {q \in [1..Cardinality(K) -> K] : Range(q) = K}

FileContents ==
    {NoFile}
    \cup {[exists |-> TRUE, json |-> j, order |-> <<>>, data |-> EmptyMap] :
             j \in (JsonKinds \ {"object"}) \cup {"invalid"}}
    \cup UNION {UNION {{[exists |-> TRUE, json |-> "object", order |-> q, data |-> d] :
                          q \in Orders(K)} :
                       d \in {x \in [K -> UNION {SampleRecords(k[1], k[2]) : k \in K}] :
                                 \A k \in K : x[k] \in SampleRecords(k[1], k[2])}} :
                  K \in SUBSET (Units \X {"merge"})}

LoadInit ==
    /\ stateFile \in FileContents
    /\ states = EmptyMap
    /\ disk = {}
    /\ now = 0
    /\ demoted = {}
    /\ latest = EmptyMap
    /\ call = NoCall
    /\ retBool = FALSE
    /\ retList = <<>>
    /\ ret = NoRet
    /\ BatchIdle

SpecLoad == LoadInit /\ [][NewStateManager]_vars

\* ---- get_pending_tasks over the stores the mark calls can build ---------
StoreKeys == Units \X SampleOperations

\* what was done for a key before the call: nothing, mark_completed with the
\* output present or since deleted, mark_failed
KeyHistories == {"none", "completed", "completed, output deleted", "failed"}

RECURSIVE MarkAll(_, _, _)
MarkAll(h, keys, st) ==
    IF keys = {} THEN st
    ELSE LET k == CHOOSE x \in keys : TRUE
             u == k[1]
             o == k[2]
             next == IF h[k] = "none" THEN st
                     ELSE IF h[k] = "failed"
                          THEN FailedStates(st, u, o, "io error", 0)
                          ELSE CompletedStates(st, u, o, <<OutputFile(u, o, 1)>>, 0)
         IN MarkAll(h, keys \ {k}, next)

PendingInit ==
    \E h \in [StoreKeys -> KeyHistories] :
        /\ states = MarkAll(h, StoreKeys, EmptyMap)
        /\ stateFile = SaveState(states)
        /\ disk = {OutputFile(k[1], k[2], 1) : k \in {x \in StoreKeys : h[x] = "completed"}}
        /\ now = 1
        /\ demoted = {}
        /\ latest = [k \in DOMAIN states |->
                        [status |-> states[k].status,
                         outs |-> [i \in DOMAIN states[k].output_files |->
                                      PathOf(states[k].output_files[i])],
                         msg |-> states[k].error_message, ts |-> 0]]
        /\ call = NoCall
        /\ retBool = FALSE
        /\ retList = <<>>
        /\ ret = NoRet
        /\ BatchIdle

CallGetPendingTasks ==
    \E dirs \in UnitLists, o \in SampleOperations :
        /\ retList' = GetPendingTasks(states, disk, dirs, o)
        /\ ret' = NoRet
        /\ call' = [kind |-> "get_pending_tasks", unit |-> 0, op |-> o, list |-> dirs]
        /\ retBool' = FALSE
        /\ demoted' = demoted \cup Demoted(states, disk, Range(dirs), o)
        /\ UNCHANGED <<storeVars, batchVars>>

SpecPending == PendingInit /\ [][CallGetPendingTasks]_vars

\* ---- the two queries while outputs come and go ----------------------------
\* over the stores the mark calls can build: is_completed and
\* get_pending_tasks are called, outputs are deleted and written again
DemoteNext ==
    \/ CallIsCompleted
    \/ CallGetPendingTasks
    \/ CreatePath
    \/ DeletePath

SpecDemote == PendingInit /\ [][DemoteNext]_vars

\* ---- the stage handlers as the orchestrator sees them ---------------------
\* how the stage of a unit behaves when it is invoked: it succeeds at once; it
\* raises an I/O error on its first two invocations and succeeds on the third;
\* the unit fails validation on every invocation
Plans ==
    {[err |-> "none", failures |-> 0],
     [err |-> "io", failures |-> 2],
     [err |-> "validation", failures |-> MaxRetries + 1]}

ErrorText(err) == IF err = "io" THEN "io error" ELSE "invalid structure"

\* Orchestrator.merge / separate / transcode: the stage is invoked once; what it
\* returns is returned, what it raises is caught and becomes a failed result
StageResult(u, o, pl) ==
    IF pl.failures = 0
    THEN [status |-> "COMPLETED", input_path |-> u,
          output_path |-> <<OutputFile(u, o, 1)>>, error_message |-> NoMessage]
    ELSE [status |-> "FAILED", input_path |-> u,
          output_path |-> <<>>, error_message |-> ErrorText(pl.err)]

\* what one invocation adds to the log of the unit: the run, and the start and
\* complete notifications the handler sends itself when it is handed the
\* callback (VideoMerger.process does, VideoTranscoder.process does not; a
\* validation failure is raised before process is called, a failed merge
\* returns without the complete notification)
HandlerNotes(o, pl, passed) ==
    IF ~passed \/ pl.err = "validation" \/ o = "transcode" THEN <<"run">>
    ELSE IF pl.err = "io" THEN <<"run", "start">>
    ELSE <<"run", "start", "complete">>

\* the callbacks handed to process_batch: None, the ProgressTracker, a callback
\* whose on_file_start can raise
CallbackKinds == {"none", "tracker", "faulty"}

StartNote == IF cb = "none" THEN <<>> ELSE <<"start">>

CompleteNote == IF cb = "none" THEN <<>> ELSE <<"complete">>

\* ConcurrentOrchestrator.process_batch: the result made of an exception of a future
ExceptionResult(u) ==
    [status |-> "FAILED", input_path |-> u, output_path |-> <<>>,
     error_message |-> "callback error"]

\* result.error_message or "未知错误", mutated: the text of the result is dropped
UnknownErrorAlways(msg) == UnknownError

\* result.error_message or "未知错误"
ErrorMessageOr(msg) == IF msg = NoMessage \/ msg = "" THEN UnknownError ELSE msg

\* the filter at the head of process_batch, mutated: skip_completed is ignored
FilterTasksIgnoringSkip(st, dk, dirs, o, sk) == dirs

\* the filter at the head of process_batch: with skip_completed the units still
\* to be processed, else every unit
FilterTasks(st, dk, dirs, o, sk) ==
    IF sk THEN GetPendingTasks(st, dk, dirs, o) ELSE dirs

\* scan_drama_directories: the units under the root, sorted by name
DramaDirs == [i \in 1..MaxUnits |-> i]

\* ---- a run of the program: create_orchestrator, then process_batch --------
Init ==
    /\ states = EmptyMap
    /\ stateFile = NoFile
    /\ disk = {}
    /\ now = 0
    /\ demoted = {}
    /\ latest = EmptyMap
    /\ call = NoCall
    /\ retBool = FALSE
    /\ retList = <<>>
    /\ ret = NoRet
    /\ config \in [enable_resume : BOOLEAN, generate_report : BOOLEAN]
    /\ maxWorkers \in 1..MaxWorkers
    /\ cb \in CallbackKinds
    /\ pc = "idle"
    /\ runs = 0
    /\ operation = ""
    /\ skip = FALSE
    /\ pendingDirs = <<>>
    /\ results = <<>>
    /\ task = <<>>
    /\ collected = <<>>
    /\ completedCount = 0
    /\ markIdx = 0
    /\ plan = [u \in Units |-> NoPlan]
    /\ log = [u \in Units |-> <<>>]
    /\ startStates = EmptyMap
    /\ startDisk = {}
    /\ lock = 0
    /\ held = [l \in 1..MaxWorkers |-> 0]
    /\ worker = [w \in 1..MaxWorkers |-> NoWorker]

\* run_merge: the result list is all completed
RunValue(rs) ==
    [raised |-> "none", value |-> \A i \in DOMAIN rs : rs[i].status = "COMPLETED"]

\* run_merge: an exception is caught, printed and answered with False
RunFailed == [raised |-> "none", value |-> FALSE]

\* whether the process_batch of the orchestrator create_orchestrator built takes
\* the keyword skip_completed: the resumable orchestrator and the reporting
\* wrapper do, Orchestrator and ConcurrentOrchestrator do not (TypeError)
AcceptsSkipCompleted(c) == c.enable_resume \/ c.generate_report

\* a new process, run_merge / run_separate / run_transcode: create_orchestrator
\* (with resume the state manager loads the file), then process_batch, which
\* filters the completed units and returns at once when none is left; run_*
\* pass skip_completed = enable_resume, other callers of the resumable
\* process_batch choose it
StartBatch ==
    \E o \in SampleOperations, sk \in BOOLEAN :
        /\ pc \in {"idle", "returned", "aborted", "crashed", "rejected"}
        /\ runs < MaxRuns
        /\ sk => config.enable_resume
        /\ LET st == IF config.enable_resume THEN LoadState(stateFile) ELSE EmptyMap
               accepted == AcceptsSkipCompleted(config)
               dirs == IF ~accepted THEN <<>>
                       ELSE IF config.enable_resume
                            THEN FilterTasks(st, disk, DramaDirs, o, sk)
                            ELSE DramaDirs
           IN /\ states' = st
              /\ startStates' = st
              /\ startDisk' = disk
              /\ pendingDirs' = dirs
              /\ pc' = IF ~accepted THEN "rejected"
                       ELSE IF dirs = <<>> THEN "returned"
                       ELSE IF maxWorkers > 1 THEN "conc" ELSE "seq"
              /\ ret' = IF ~accepted THEN RunFailed
                        ELSE IF dirs = <<>> THEN RunValue(<<>>) ELSE NoRet
              /\ results' = IF maxWorkers > 1 THEN [i \in DOMAIN dirs |-> NoResult] ELSE <<>>
              /\ task' = [i \in DOMAIN dirs |-> NoTask]
        /\ runs' = runs + 1
        /\ operation' = o
        /\ skip' = sk
        /\ collected' = <<>>
        /\ completedCount' = 0
        /\ markIdx' = 0
        /\ plan' = [u \in Units |-> NoPlan]
        /\ log' = [u \in Units |-> <<>>]
        /\ UNCHANGED <<stateFile, disk, now, latest, call, retBool, retList, config,
                       maxWorkers, cb, lockVars, demoted>>

\* Orchestrator.process_batch, mutated: the loop ends at the first failed result
SeqStepStopsAtFailure ==
    /\ pc = "seq"
    /\ Len(results) < Len(pendingDirs)
    /\ \E pl \in Plans :
         LET u == pendingDirs[Len(results) + 1]
             r == StageResult(u, operation, pl)
         IN /\ results' = Append(results, r)
            /\ disk' = disk \cup Range(r.output_path)
            /\ plan' = [plan EXCEPT ![u] = pl]
            /\ log' = [log EXCEPT ![u] =
                          @ \o StartNote \o HandlerNotes(operation, pl, cb # "none")
                            \o CompleteNote]
            /\ pc' = IF r.status = "FAILED" THEN "mark" ELSE pc
            /\ markIdx' = IF r.status = "FAILED" THEN 1 ELSE markIdx
    /\ UNCHANGED <<states, stateFile, now, latest, apiVars, config, maxWorkers, cb, runs, operation,
                   skip, pendingDirs, task, collected, completedCount, startStates, startDisk, lockVars, demoted>>

\* Orchestrator.process_batch: one turn of the loop over the units
SeqStep ==
    /\ pc = "seq"
    /\ Len(results) < Len(pendingDirs)
    /\ LET u == pendingDirs[Len(results) + 1] IN
         \/ /\ cb = "faulty"
            /\ pc' = "aborted"
            /\ ret' = RunFailed
            /\ log' = [log EXCEPT ![u] = Append(@, "start raised")]
            /\ UNCHANGED <<disk, results, plan>>
         \/ \E pl \in Plans :
              LET r == StageResult(u, operation, pl)
              IN /\ results' = Append(results, r)
                 /\ disk' = disk \cup Range(r.output_path)
                 /\ plan' = [plan EXCEPT ![u] = pl]
                 /\ log' = [log EXCEPT ![u] =
                               @ \o StartNote \o HandlerNotes(operation, pl, cb # "none")
                                 \o CompleteNote]
                 /\ pc' = pc
                 /\ ret' = ret
    /\ UNCHANGED <<states, stateFile, now, latest, call, retBool, retList, config, maxWorkers, cb, runs, operation,
                   skip, pendingDirs, task, collected, completedCount, markIdx, startStates, startDisk, lockVars, demoted>>

Running == {i \in DOMAIN task : task[i].st = "running"}

\* a free worker takes the next submitted unit: process_single up to the handler
TaskStart ==
    /\ pc = "conc"
    /\ Cardinality(Running) < maxWorkers
    /\ \E i \in DOMAIN task :
         /\ task[i].st = "queued"
         /\ \A j \in 1..(i - 1) : task[j].st # "queued"
         /\ \/ /\ cb = "faulty"
               /\ task' = [task EXCEPT ![i] =
                             [st |-> "done", exc |-> TRUE, index |-> 0, result |-> NoResult]]
               /\ log' = [log EXCEPT ![pendingDirs[i]] = Append(@, "start raised")]
            \/ /\ task' = [task EXCEPT ![i].st = "running"]
               /\ log' = [log EXCEPT ![pendingDirs[i]] = @ \o StartNote]
    /\ UNCHANGED <<storeVars, apiVars, config, maxWorkers, cb, pc, runs, operation, skip, pendingDirs,
                   results, collected, completedCount, markIdx, plan, startStates, startDisk, lockVars, demoted>>

\* process_single from the handler on: the stage runs, the counter and the
\* notifications follow under the lock, the future holds (index, result)
TaskFinish ==
    /\ pc = "conc"
    /\ \E i \in Running, pl \in Plans :
         LET u == pendingDirs[i]
             r == StageResult(u, operation, pl)
         IN /\ task' = [task EXCEPT ![i] =
                          [st |-> "done", exc |-> FALSE, index |-> i, result |-> r]]
            /\ disk' = disk \cup Range(r.output_path)
            /\ plan' = [plan EXCEPT ![u] = pl]
            /\ completedCount' = IF cb = "none" THEN completedCount ELSE completedCount + 1
            /\ log' = [log EXCEPT ![u] = @ \o HandlerNotes(operation, pl, FALSE) \o CompleteNote]
    /\ UNCHANGED <<states, stateFile, now, latest, apiVars, config, maxWorkers, cb, pc, runs,
                   operation, skip, pendingDirs, results, collected, markIdx, startStates, startDisk, lockVars, demoted>>

\* the collecting loop, mutated: the results are stored in the order of completion
CollectInCompletionOrder ==
    /\ pc = "conc"
    /\ \E i \in DOMAIN task :
         /\ task[i].st = "done"
         /\ results' = [results EXCEPT ![Len(collected) + 1] =
                           IF task[i].exc THEN ExceptionResult(pendingDirs[i])
                           ELSE task[i].result]
         /\ task' = [task EXCEPT ![i].st = "collected"]
         /\ collected' = Append(collected, i)
    /\ UNCHANGED <<storeVars, apiVars, config, maxWorkers, cb, pc, runs, operation, skip, pendingDirs,
                   completedCount, markIdx, plan, log, startStates, startDisk, lockVars, demoted>>

\* the loop over as_completed: the result goes to the slot of the index the
\* future returned, a raised exception to the slot futures[future]
Collect ==
    /\ pc = "conc"
    /\ \E i \in DOMAIN task :
         /\ task[i].st = "done"
         /\ results' = IF task[i].exc
                       THEN [results EXCEPT ![i] = ExceptionResult(pendingDirs[i])]
                       ELSE [results EXCEPT ![task[i].index] = task[i].result]
         /\ task' = [task EXCEPT ![i].st = "collected"]
         /\ collected' = Append(collected, i)
    /\ UNCHANGED <<storeVars, apiVars, config, maxWorkers, cb, pc, runs, operation, skip, pendingDirs,
                   completedCount, markIdx, plan, log, startStates, startDisk, lockVars, demoted>>

\* the inner process_batch returns its results
FinishDispatch ==
    /\ \/ pc = "seq" /\ Len(results) = Len(pendingDirs)
       \/ pc = "conc" /\ \A i \in DOMAIN task : task[i].st = "collected"
    /\ pc' = IF config.enable_resume THEN "mark" ELSE "returned"
    /\ markIdx' = IF config.enable_resume THEN 1 ELSE markIdx
    /\ ret' = IF config.enable_resume THEN ret ELSE RunValue(results)
    /\ UNCHANGED <<storeVars, call, retBool, retList, config, maxWorkers, cb, runs, operation, skip, pendingDirs,
                   results, task, collected, completedCount, plan, log, startStates, startDisk, lockVars, demoted>>

\* the loop that updates the state: one result is marked; after the last one
\* process_batch returns
MarkStep ==
    /\ pc = "mark"
    /\ LET r == results[markIdx] IN
         \/ /\ r.status = "COMPLETED"
            /\ MarkCompleted(r.input_path, operation, r.output_path)
         \/ /\ r.status = "FAILED"
            /\ MarkFailed(r.input_path, operation, ErrorMessageOr(r.error_message))
    /\ markIdx' = markIdx + 1
    /\ pc' = IF markIdx = Len(results) THEN "returned" ELSE "mark"
    /\ ret' = IF markIdx = Len(results) THEN RunValue(results) ELSE ret
    /\ UNCHANGED <<disk, call, retBool, retList, config, maxWorkers, cb, runs, operation, skip, pendingDirs, results,
                   task, collected, completedCount, plan, log, startStates, startDisk, lockVars, demoted>>

\* the process dies during a batch; what it held in memory is lost
Crash ==
    /\ pc \in {"seq", "conc", "mark"}
    /\ pc' = "crashed"
    /\ UNCHANGED <<storeVars, apiVars, config, maxWorkers, cb, runs, operation, skip, pendingDirs,
                   results, task, collected, completedCount, markIdx, plan, log, startStates, startDisk, lockVars, demoted>>

\* between two runs an output is deleted from outside
DeleteOutput ==
    /\ pc \in {"returned", "aborted", "crashed", "rejected"}
    /\ runs < MaxRuns
    /\ \E p \in disk : disk' = disk \ {p}
    /\ UNCHANGED <<states, stateFile, now, latest, apiVars, batchVars, demoted>>

Next ==
    \/ StartBatch
    \/ SeqStep
    \/ TaskStart
    \/ TaskFinish
    \/ Collect
    \/ FinishDispatch
    \/ MarkStep
    \/ Crash
    \/ DeleteOutput

Spec == Init /\ [][Next]_vars

\* ---- the stage report of the reporting wrapper -------------------------------
\* the loop over the results: the results of one status, in the order returned
TasksWithStatus(rs, s) ==
    LET HasStatus(r) == r.status = s
    IN SelectSeq(rs, HasStatus)

\* ReportingWrapper.process_batch: the report counts the units handed in and
\* lists the results the wrapped process_batch returned
ProcessingReport(dirs, o, rs) ==
    LET done == TasksWithStatus(rs, "COMPLETED")
        failed == TasksWithStatus(rs, "FAILED")
        skipped == TasksWithStatus(rs, "SKIPPED")
    IN [operation |-> o,
        total_tasks |-> Len(dirs),
        successful_tasks |-> [j \in DOMAIN done |-> done[j].input_path],
        failed_tasks |-> [j \in DOMAIN failed |->
                             <<failed[j].input_path, ErrorMessageOr(failed[j].error_message)>>],
        skipped_tasks |-> [j \in DOMAIN skipped |->
                              <<skipped[j].input_path, skipped[j].error_message>>]]

\* DetailedProcessingReport.to_dict: what save_to_file writes
ToDict(report) ==
    [operation |-> report.operation,
     total_tasks |-> report.total_tasks,
     successful_count |-> Len(report.successful_tasks),
     failed_count |-> Len(report.failed_tasks),
     skipped_count |-> Len(report.skipped_tasks),
     successful_tasks |-> report.successful_tasks,
     failed_tasks |-> [j \in DOMAIN report.failed_tasks |->
                          [path |-> report.failed_tasks[j][1],
                           error |-> report.failed_tasks[j][2]]],
     skipped_tasks |-> [j \in DOMAIN report.skipped_tasks |->
                           [path |-> report.skipped_tasks[j][1],
                            reason |-> report.skipped_tasks[j][2]]]]

\* the wrapper saves its report when the wrapped process_batch has returned
ReportSaved == config.generate_report /\ pc = "returned"

\* the report file of the last run
SavedReport == ToDict(ProcessingReport(DramaDirs, operation, results))

\* ---- the worker threads of ConcurrentOrchestrator.process_batch, step by step
\* the threads the pool starts: at most max_workers
Workers == 1..maxWorkers

\* a batch in concurrent mode whose futures have just been submitted
LockInit ==
    /\ states = EmptyMap
    /\ stateFile = NoFile
    /\ disk = {}
    /\ now = 0
    /\ demoted = {}
    /\ latest = EmptyMap
    /\ call = NoCall
    /\ retBool = FALSE
    /\ retList = <<>>
    /\ ret = NoRet
    /\ config = [enable_resume |-> FALSE, generate_report |-> TRUE]
    /\ maxWorkers \in 1..MaxWorkers
    /\ cb \in {"none", "tracker"}
    /\ pc = "conc"
    /\ runs = 1
    /\ operation \in SampleOperations
    /\ skip = FALSE
    /\ pendingDirs = DramaDirs
    /\ results = [i \in DOMAIN DramaDirs |-> NoResult]
    /\ task = [i \in DOMAIN DramaDirs |-> NoTask]
    /\ collected = <<>>
    /\ completedCount = 0
    /\ markIdx = 0
    /\ plan = [u \in Units |-> NoPlan]
    /\ log = [u \in Units |-> <<>>]
    /\ startStates = EmptyMap
    /\ startDisk = {}
    /\ lock = 0
    /\ held = [l \in 1..MaxWorkers |-> 0]
    /\ worker = [w \in 1..MaxWorkers |-> NoWorker]

lockRest == <<storeVars, apiVars, config, maxWorkers, cb, pc, runs, operation, skip,
              pendingDirs, results, collected, markIdx, startStates, startDisk, demoted>>

\* the pool, mutated: it starts a thread per item whatever max_workers is
TakeItemUnbounded ==
    \E w \in 1..MaxWorkers :
        /\ worker[w].pos = "idle"
        /\ \E i \in DOMAIN task :
             /\ task[i].st = "queued"
             /\ \A j \in 1..(i - 1) : task[j].st # "queued"
             /\ task' = [task EXCEPT ![i].st = "running"]
             /\ worker' = [worker EXCEPT ![w] =
                              IF cb = "none"
                              THEN [pos |-> "handler", phase |-> "none", i |-> i, ref |-> 0]
                              ELSE [pos |-> "check", phase |-> "start", i |-> i, ref |-> 0]]
        /\ UNCHANGED <<lock, held, completedCount, plan, log, lockRest>>

\* a waiting thread of the pool takes the oldest work item and enters
\* process_single: with a callback it calls self._get_lock(), without one it
\* goes to the handler
TakeItem ==
    \E w \in Workers :
        /\ worker[w].pos = "idle"
        /\ \E i \in DOMAIN task :
             /\ task[i].st = "queued"
             /\ \A j \in 1..(i - 1) : task[j].st # "queued"
             /\ task' = [task EXCEPT ![i].st = "running"]
             /\ worker' = [worker EXCEPT ![w] =
                              IF cb = "none"
                              THEN [pos |-> "handler", phase |-> "none", i |-> i, ref |-> 0]
                              ELSE [pos |-> "check", phase |-> "start", i |-> i, ref |-> 0]]
        /\ UNCHANGED <<lock, held, completedCount, plan, log, lockRest>>

\* _get_lock: if self._lock is None
GetLockCheck ==
    \E w \in Workers :
        /\ worker[w].pos = "check"
        /\ worker' = [worker EXCEPT ![w].pos = IF lock = 0 THEN "create" ELSE "return"]
        /\ UNCHANGED <<lock, held, task, completedCount, plan, log, lockRest>>

\* _get_lock: self._lock = threading.Lock()
GetLockCreate ==
    \E w \in Workers :
        /\ worker[w].pos = "create"
        /\ lock' = w
        /\ worker' = [worker EXCEPT ![w].pos = "return"]
        /\ UNCHANGED <<held, task, completedCount, plan, log, lockRest>>

\* _get_lock: return self._lock
GetLockReturn ==
    \E w \in Workers :
        /\ worker[w].pos = "return"
        /\ worker' = [worker EXCEPT ![w].pos = "acquire", ![w].ref = lock]
        /\ UNCHANGED <<lock, held, task, completedCount, plan, log, lockRest>>

\* with <the lock _get_lock returned>: the thread waits until that lock is
\* free and takes it; inside it calls on_file_start the first time, and the
\* second time it adds one to the counter
Acquire ==
    \E w \in Workers :
        /\ worker[w].pos = "acquire"
        /\ held[worker[w].ref] = 0
        /\ held' = [held EXCEPT ![worker[w].ref] = w]
        /\ worker' = [worker EXCEPT ![w].pos = "callback"]
        /\ completedCount' = IF worker[w].phase = "complete" THEN completedCount + 1
                             ELSE completedCount
        /\ log' = [log EXCEPT ![pendingDirs[worker[w].i]] =
                      IF worker[w].phase = "start" THEN Append(@, "start") ELSE @]
        /\ UNCHANGED <<lock, task, plan, lockRest>>

\* the end of the with block: after on_file_start the thread goes on to the
\* handler; after on_progress and on_file_complete process_single returns
\* (index, result) and the thread waits for the next item
Release ==
    \E w \in Workers :
        /\ worker[w].pos = "callback"
        /\ held' = [held EXCEPT ![worker[w].ref] = 0]
        /\ IF worker[w].phase = "start"
           THEN /\ worker' = [worker EXCEPT ![w].pos = "handler", ![w].ref = 0]
                /\ UNCHANGED <<task, log>>
           ELSE /\ worker' = [worker EXCEPT ![w] = NoWorker]
                /\ task' = [task EXCEPT ![worker[w].i].st = "done"]
                /\ log' = [log EXCEPT ![pendingDirs[worker[w].i]] = Append(@, "complete")]
        /\ UNCHANGED <<lock, completedCount, plan, lockRest>>

\* operation_func(drama_dir, None): the stage handler runs to its end
RunHandler ==
    \E w \in Workers :
        /\ worker[w].pos = "handler"
        /\ \E pl \in Plans :
             LET i == worker[w].i
                 u == pendingDirs[i]
                 r == StageResult(u, operation, pl)
             IN /\ task' = [task EXCEPT ![i] =
                              [st |-> IF cb = "none" THEN "done" ELSE "running",
                               exc |-> FALSE, index |-> i, result |-> r]]
                /\ disk' = disk \cup Range(r.output_path)
                /\ plan' = [plan EXCEPT ![u] = pl]
                /\ log' = [log EXCEPT ![u] = @ \o HandlerNotes(operation, pl, FALSE)]
        /\ worker' = [worker EXCEPT ![w] =
                         IF cb = "none" THEN NoWorker
                         ELSE [pos |-> "check", phase |-> "complete", i |-> worker[w].i, ref |-> 0]]
        /\ UNCHANGED <<states, stateFile, now, latest, apiVars, lock, held, completedCount,
                       config, maxWorkers, cb, pc, runs, operation, skip, pendingDirs, results,
                       collected, markIdx, startStates, startDisk, demoted>>

LockNext ==
    \/ TakeItem
    \/ GetLockCheck
    \/ GetLockCreate
    \/ GetLockReturn
    \/ Acquire
    \/ Release
    \/ RunHandler

SpecLock == LockInit /\ [][LockNext]_vars

\* the threads of the pool are scheduled: a thread that can take a step takes one
SpecLockFair == SpecLock /\ WF_vars(LockNext)

\* ---- error_handler.py: the recovery strategies and ErrorHandler.handle ------
\* exception classes that reach a handler, each with the classes it is an
\* instance of: IOError is OSError; TimeoutError and FileNotFoundError derive
\* from it; the classes of the repository derive from Exception only
ErrorClasses ==
    [c \in {"ValidationError", "FFmpegError", "AudioSeparationError", "OSError",
            "TimeoutError", "FileNotFoundError", "ValueError", "TimeoutExpired"} |->
        CASE c = "TimeoutError" -> {"TimeoutError", "OSError", "Exception"}
          [] c = "FileNotFoundError" -> {"FileNotFoundError", "OSError", "Exception"}
          [] c = "TimeoutExpired" -> {"TimeoutExpired", "SubprocessError", "Exception"}
          [] OTHER -> {c, "Exception"}]

IsInstance(error, classes) == ErrorClasses[error] \cap classes # {}

\* RetryStrategy.can_recover, mutated: every error is retried
RetryCanRecoverAny(error) == TRUE

\* RetryStrategy.can_recover
RetryCanRecover(error) == IsInstance(error, {"OSError", "TimeoutError"})

\* SkipStrategy.can_recover
SkipCanRecover(error) == IsInstance(error, {"ValidationError"})

\* RetryStrategy.recover, mutated: the limit is tested with > instead of >=
RECURSIVE RetryRecoverOneMore(_, _)
RetryRecoverOneMore(max_retries, context) ==
    IF context.retry_count > max_retries THEN [raised |-> "none", value |-> FALSE, context |-> context]
    ELSE IF ~context.operation.present
    THEN [raised |-> "none", value |-> FALSE,
          context |-> [context EXCEPT !.slept = @ + context.retry_count + 1]]
    ELSE IF context.operation.fails = 0
    THEN [raised |-> "none", value |-> TRUE,
          context |-> [context EXCEPT !.invoked = @ + 1, !.slept = @ + context.retry_count + 1]]
    ELSE RetryRecoverOneMore(max_retries,
             [context EXCEPT !.retry_count = @ + 1, !.operation.fails = @ - 1,
                             !.invoked = @ + 1, !.slept = @ + context.retry_count + 1])

\* RetryStrategy.recover: context is the dict handed in, with the operation
\* given by the number of times it still raises, and the history of the
\* invocations and of the delays slept (in units of delay_seconds)
RECURSIVE RetryRecover(_, _)
RetryRecover(max_retries, context) ==
    IF context.retry_count >= max_retries THEN [raised |-> "none", value |-> FALSE, context |-> context]
    ELSE IF ~context.operation.present
    THEN [raised |-> "none", value |-> FALSE,
          context |-> [context EXCEPT !.slept = @ + context.retry_count + 1]]
    ELSE IF context.operation.fails = 0
    THEN [raised |-> "none", value |-> TRUE,
          context |-> [context EXCEPT !.invoked = @ + 1, !.slept = @ + context.retry_count + 1]]
    ELSE RetryRecover(max_retries,
             [context EXCEPT !.retry_count = @ + 1, !.operation.fails = @ - 1,
                             !.invoked = @ + 1, !.slept = @ + context.retry_count + 1])

\* SkipStrategy.recover
SkipRecover(context) == [raised |-> "none", value |-> TRUE, context |-> context]

\* strategy.can_recover(error) for the strategies of the repository and for a
\* strategy with fixed answers
CanRecover(strategy, error) ==
    IF strategy.kind = "retry" THEN RetryCanRecover(error)
    ELSE IF strategy.kind = "skip" THEN SkipCanRecover(error)
    ELSE strategy.can

\* strategy.recover(error, context)
Recover(strategy, error, context) ==
    IF strategy.kind = "retry" THEN RetryRecover(strategy.max_retries, context)
    ELSE IF strategy.kind = "skip" THEN SkipRecover(context)
    ELSE IF strategy.rec = "raise" THEN [raised |-> "Exception", value |-> FALSE, context |-> context]
    ELSE [raised |-> "none", value |-> strategy.rec = "true", context |-> context]

Answer(b) == IF b THEN "true" ELSE "false"

\* ErrorHandler.handle, mutated: the answer of the first strategy that claims
\* the error is final
RECURSIVE HandleFirstClaim(_, _, _, _, _)
HandleFirstClaim(strategies, k, error, context, trace) ==
    IF k > Len(strategies) THEN [value |-> FALSE, trace |-> trace, context |-> context]
    ELSE LET can == CanRecover(strategies[k], error)
             t1 == Append(trace, [k |-> k, what |-> "can_recover", answer |-> Answer(can)])
         IN IF ~can THEN HandleFirstClaim(strategies, k + 1, error, context, t1)
            ELSE LET out == Recover(strategies[k], error, context)
                     t2 == Append(t1, [k |-> k, what |-> "recover",
                                       answer |-> IF out.raised # "none" THEN "raise"
                                                  ELSE Answer(out.value)])
                 IN [value |-> out.raised = "none" /\ out.value, trace |-> t2,
                     context |-> out.context]

\* ErrorHandler.handle from strategy k on; trace is the history of the calls
\* made to the strategies
RECURSIVE HandleFrom(_, _, _, _, _)
HandleFrom(strategies, k, error, context, trace) ==
    IF k > Len(strategies) THEN [value |-> FALSE, trace |-> trace, context |-> context]
    ELSE LET can == CanRecover(strategies[k], error)
             t1 == Append(trace, [k |-> k, what |-> "can_recover", answer |-> Answer(can)])
         IN IF ~can THEN HandleFrom(strategies, k + 1, error, context, t1)
            ELSE LET out == Recover(strategies[k], error, context)
                     t2 == Append(t1, [k |-> k, what |-> "recover",
                                       answer |-> IF out.raised # "none" THEN "raise"
                                                  ELSE Answer(out.value)])
                 IN IF out.raised = "none" /\ out.value
                    THEN [value |-> TRUE, trace |-> t2, context |-> out.context]
                    ELSE HandleFrom(strategies, k + 1, error, out.context, t2)

\* ErrorHandler.handle
Handle(strategies, error, context) == HandleFrom(strategies, 1, error, context, <<>>)

\* the strategies registered by add_strategy: RetryStrategy with a limit,
\* SkipStrategy, and strategies with fixed answers
SampleStrategies ==
    {[kind |-> "retry", max_retries |-> n, can |-> FALSE, rec |-> "false"] : n \in {0, 1, MaxRetries}}
    \cup {[kind |-> "skip", max_retries |-> 0, can |-> FALSE, rec |-> "false"]}
    \cup {[kind |-> "stub", max_retries |-> 0, can |-> c, rec |-> r] :
             c \in BOOLEAN, r \in {"true", "false", "raise"}}

\* the context dicts: retry_count, and the operation, absent or raising a
\* number of times before it succeeds
SampleContexts ==
    {[retry_count |-> n, operation |-> op, invoked |-> 0, slept |-> 0] :
        n \in 0..(MaxRetries + 1),
        op \in {[present |-> FALSE, fails |-> 0]}
               \cup {[present |-> TRUE, fails |-> f] : f \in 0..(MaxRetries + 1)}}

HandlerCalls ==
    {[kind |-> "handle", strategies |-> s, error |-> e, context |-> c] :
        s \in SeqsUpTo(SampleStrategies, MaxStrategies), e \in DOMAIN ErrorClasses,
        c \in {x \in SampleContexts : x.retry_count \in {0, MaxRetries}
                                      /\ x.operation.fails \in {0, 2, MaxRetries + 1}}}
    \cup {[kind |-> "recover", strategies |-> <<s>>, error |-> "OSError", context |-> c] :
             s \in {x \in SampleStrategies : x.kind = "retry"}, c \in SampleContexts}

HandlerInit ==
    /\ call \in HandlerCalls
    /\ ret = NoRet
    /\ states = EmptyMap
    /\ stateFile = NoFile
    /\ disk = {}
    /\ now = 0
    /\ demoted = {}
    /\ latest = EmptyMap
    /\ retBool = FALSE
    /\ retList = <<>>
    /\ BatchIdle

CallHandle ==
    /\ call.kind = "handle"
    /\ ret.raised = "not called"
    /\ ret' = [raised |-> "none", value |-> Handle(call.strategies, call.error, call.context)]
    /\ UNCHANGED <<storeVars, call, retBool, retList, batchVars, demoted>>

CallRecover ==
    /\ call.kind = "recover"
    /\ ret.raised = "not called"
    /\ ret' = [raised |-> "none",
               value |-> RetryRecover(call.strategies[1].max_retries, call.context)]
    /\ UNCHANGED <<storeVars, call, retBool, retList, batchVars, demoted>>

SpecHandler == HandlerInit /\ [][CallHandle \/ CallRecover]_vars

\* ---- merger.py: merge_subtitles -------------------------------------------
\* times are whole seconds; SubtitleEntry.shift_time adds the offset to both
ShiftTime(e, offset) ==
    [e EXCEPT !.start_time = @ + offset, !.end_time = @ + offset]

\* SubtitleFile.shift_all
ShiftAll(entries, offset) == [j \in DOMAIN entries |-> ShiftTime(entries[j], offset)]

\* the loop of merge_subtitles, mutated: the offset of a file is the duration of
\* the segment before it, not the sum of all durations before it
RECURSIVE MergeLoopLastDuration(_, _, _, _, _)
MergeLoopLastDuration(segs, vids, i, offset, all) ==
    IF i > Len(segs) THEN all
    ELSE LET shifted == IF offset > 0 THEN ShiftAll(segs[i].entries, offset)
                        ELSE segs[i].entries
             numbered == [j \in DOMAIN shifted |->
                            [shifted[j] EXCEPT !.index = Len(all) + j]]
             next == IF i <= Len(vids) THEN vids[i] ELSE offset
         IN MergeLoopLastDuration(segs, vids, i + 1, next, all \o numbered)

\* the loop of merge_subtitles from the i-th file on: offset is
\* cumulative_offset, all is all_entries, global_index is Len(all) + 1
RECURSIVE MergeLoop(_, _, _, _, _)
MergeLoop(segs, vids, i, offset, all) ==
    IF i > Len(segs) THEN all
    ELSE LET shifted == IF offset > 0 THEN ShiftAll(segs[i].entries, offset)
                        ELSE segs[i].entries
             numbered == [j \in DOMAIN shifted |->
                            [shifted[j] EXCEPT !.index = Len(all) + j]]
             next == IF i <= Len(vids) THEN offset + vids[i] ELSE offset
         IN MergeLoop(segs, vids, i + 1, next, all \o numbered)

NoOutput == [written |-> FALSE, how |-> "none", format |-> "none", entries |-> <<>>]

\* merge_subtitles, mutated: the output directory is made before the formats
\* are compared
MergeSubtitlesMkdirFirst(segs, vids) ==
    IF segs = <<>>
    THEN [raised |-> "ValueError: empty",
          value |-> [mkdir |-> FALSE, parsed |-> <<>>, output |-> NoOutput]]
    ELSE IF \E i \in 2..Len(segs) : segs[i].format # segs[1].format
    THEN [raised |-> "ValueError: format mismatch",
          value |-> [mkdir |-> TRUE, parsed |-> <<>>, output |-> NoOutput]]
    ELSE IF Len(segs) = 1
    THEN [raised |-> "none",
          value |-> [mkdir |-> TRUE, parsed |-> <<>>,
                     output |-> [written |-> TRUE, how |-> "copy",
                                 format |-> segs[1].format, entries |-> segs[1].entries]]]
    ELSE [raised |-> "none",
          value |-> [mkdir |-> TRUE,
                     parsed |-> <<1>> \o [i \in 1..Len(segs) |-> i],
                     output |-> [written |-> TRUE, how |-> "merge",
                                 format |-> segs[1].format,
                                 entries |-> MergeLoop(segs, vids, 1, 0, <<>>)]]]

\* merge_subtitles: what it raises, whether it made the output directory, the
\* files it parsed in order, and the file it wrote (a single input is copied)
MergeSubtitles(segs, vids) ==
    IF segs = <<>>
    THEN [raised |-> "ValueError: empty",
          value |-> [mkdir |-> FALSE, parsed |-> <<>>, output |-> NoOutput]]
    ELSE IF \E i \in 2..Len(segs) : segs[i].format # segs[1].format
    THEN [raised |-> "ValueError: format mismatch",
          value |-> [mkdir |-> FALSE, parsed |-> <<>>, output |-> NoOutput]]
    ELSE IF Len(segs) = 1
    THEN [raised |-> "none",
          value |-> [mkdir |-> TRUE, parsed |-> <<>>,
                     output |-> [written |-> TRUE, how |-> "copy",
                                 format |-> segs[1].format, entries |-> segs[1].entries]]]
    ELSE [raised |-> "none",
          value |-> [mkdir |-> TRUE,
                     parsed |-> <<1>> \o [i \in 1..Len(segs) |-> i],
                     output |-> [written |-> TRUE, how |-> "merge",
                                 format |-> segs[1].format,
                                 entries |-> MergeLoop(segs, vids, 1, 0, <<>>)]]]

\* the entry lists of the sample subtitle files: none, one entry that starts
\* after 12 s and carries the index 7, two entries in order
SampleEntryLists ==
    {<<>>,
     <<[index |-> 7, start_time |-> 12, end_time |-> 14, text |-> "a"]>>,
     <<[index |-> 1, start_time |-> 0, end_time |-> 2, text |-> "b"],
       [index |-> 2, start_time |-> 5, end_time |-> 8, text |-> "c"]>>}

SubtitleFormats == {"srt", "ass"}

SampleDurations == {0, 10, 20}

MergeInit ==
    /\ \E segs \in SeqsUpTo([format : SubtitleFormats, entries : SampleEntryLists], MaxFiles),
          vids \in SeqsUpTo(SampleDurations, MaxFiles) :
            call = [kind |-> "merge_subtitles", segments |-> segs, video_segments |-> vids]
    /\ ret = NoRet
    /\ states = EmptyMap
    /\ stateFile = NoFile
    /\ disk = {}
    /\ now = 0
    /\ demoted = {}
    /\ latest = EmptyMap
    /\ retBool = FALSE
    /\ retList = <<>>
    /\ BatchIdle

CallMergeSubtitles ==
    /\ call.kind = "merge_subtitles"
    /\ ret.raised = "not called"
    /\ ret' = MergeSubtitles(call.segments, call.video_segments)
    /\ UNCHANGED <<storeVars, call, retBool, retList, batchVars, demoted>>

SpecMerge == MergeInit /\ [][CallMergeSubtitles]_vars

\* ---- sorter.py: FileSorter --------------------------------------------------
\* a file name is its stem and its suffix, each a sequence of characters
\* (Path.stem drops the suffix); the characters of the sample names and their
\* code points, by which Python compares text
CharCode ==
    [c \in {"\n", "-", "0", "1", "2", "3", "5", "D", "V", "a", "d", "m", "r", "v"} |->
        CASE c = "\n" -> 10 [] c = "-" -> 45 [] c = "0" -> 48 [] c = "1" -> 49
          [] c = "2" -> 50 [] c = "3" -> 51 [] c = "5" -> 53 [] c = "D" -> 68
          [] c = "V" -> 86 [] c = "a" -> 97 [] c = "d" -> 100 [] c = "m" -> 109
          [] c = "r" -> 114 [] c = "v" -> 118]

\* the characters the pattern \d matches, with their values
DigitValue == [c \in {"0", "1", "2", "3", "5"} |-> CharCode[c] - 48]

IsDigit(c) == c \in DOMAIN DigitValue

\* str.lower
Lower(c) == IF c = "V" THEN "v" ELSE c

\* int(text) of a run of digits
RECURSIVE IntOf(_)
IntOf(ds) ==
    IF ds = <<>> THEN 0
    ELSE 10 * IntOf(SubSeq(ds, 1, Len(ds) - 1)) + DigitValue[ds[Len(ds)]]

\* the length of the first maximal run of digits, or of non-digits, of a text
RunLen(t) ==
    CHOOSE n \in 1..Len(t) :
        /\ \A i \in 1..n : IsDigit(t[i]) = IsDigit(t[1])
        /\ n = Len(t) \/ IsDigit(t[n + 1]) # IsDigit(t[1])

\* re.finditer(r'(\d+)|(\D+)', text): the maximal runs from left to right
RECURSIVE Runs(_)
Runs(t) ==
    IF t = <<>> THEN <<>>
    ELSE <<SubSeq(t, 1, RunLen(t))>> \o Runs(SubSeq(t, RunLen(t) + 1, Len(t)))

\* natural_sort_key: a digit run becomes its number, a text run its lower case;
\* a stem without characters gives ('',)
NaturalSortKey(f) ==
    LET r == Runs(f.stem)
    IN IF r = <<>> THEN <<[t |-> "str", n |-> 0, v |-> <<>>]>>
       ELSE [i \in DOMAIN r |->
                IF IsDigit(r[i][1])
                THEN [t |-> "int", n |-> IntOf(r[i]), v |-> <<>>]
                ELSE [t |-> "str", n |-> 0, v |-> [j \in DOMAIN r[i] |-> Lower(r[i][j])]]]

\* text < text: by code point at the first difference, else the shorter first
StrLess(a, b) ==
    \/ \E i \in DOMAIN a \cap DOMAIN b :
          /\ CharCode[a[i]] < CharCode[b[i]]
          /\ \A j \in 1..(i - 1) : a[j] = b[j]
    \/ /\ Len(a) < Len(b)
       /\ \A j \in DOMAIN a : a[j] = b[j]

\* tuple < tuple as Python evaluates it: the first pair of unequal elements
\* decides, and a number against a text raises TypeError
KeyLess(a, b) ==
    IF \A i \in DOMAIN a \cap DOMAIN b : a[i] = b[i]
    THEN IF Len(a) < Len(b) THEN "true" ELSE "false"
    ELSE LET i == CHOOSE n \in DOMAIN a \cap DOMAIN b :
                      a[n] # b[n] /\ \A j \in 1..(n - 1) : a[j] = b[j]
         IN IF a[i].t # b[i].t THEN "TypeError"
            ELSE IF a[i].t = "int" THEN (IF a[i].n < b[i].n THEN "true" ELSE "false")
            ELSE IF StrLess(a[i].v, b[i].v) THEN "true" ELSE "false"

\* one step of a stable sort: x goes behind the last file that is not greater
RECURSIVE InsertFile(_, _)
InsertFile(sorted, x) ==
    IF sorted = <<>> THEN <<x>>
    ELSE IF KeyLess(NaturalSortKey(x), NaturalSortKey(sorted[Len(sorted)])) = "true"
         THEN Append(InsertFile(SubSeq(sorted, 1, Len(sorted) - 1), x), sorted[Len(sorted)])
         ELSE Append(sorted, x)

RECURSIVE StableSort(_)
StableSort(files) ==
    IF files = <<>> THEN <<>>
    ELSE InsertFile(StableSort(SubSeq(files, 1, Len(files) - 1)), files[Len(files)])

\* sort_files: sorted(files, key=natural_sort_key). The sort is stable; it has
\* to compare a file of every kind of key with one of another kind, so it
\* raises when two keys of the list cannot be compared
SortFiles(files) ==
    IF \E i, j \in DOMAIN files :
           KeyLess(NaturalSortKey(files[i]), NaturalSortKey(files[j])) = "TypeError"
    THEN [raised |-> "TypeError", value |-> <<>>]
    ELSE [raised |-> "none", value |-> StableSort(files)]

\* extract_number(name)[0]: the number of the first digit run of the stem, 0
\* when the stem has none
PrimaryNumber(f) ==
    LET r == Runs(f.stem)
    IN IF \E i \in DOMAIN r : IsDigit(r[i][1])
       THEN IntOf(r[CHOOSE i \in DOMAIN r :
                        IsDigit(r[i][1]) /\ \A j \in 1..(i - 1) : ~IsDigit(r[j][1])])
       ELSE 0

\* validate_sequence: (is_valid, error_message); the message is given by its
\* kind and the set of numbers it lists in ascending order
ValidateSequence(files) ==
    IF files = <<>> THEN [valid |-> FALSE, message |-> "empty", numbers |-> {}]
    ELSE LET numbers == [i \in DOMAIN files |-> PrimaryNumber(files[i])]
             duplicates == {numbers[i] : i \in {k \in DOMAIN numbers :
                                                  \E j \in 1..(k - 1) : numbers[j] = numbers[k]}}
             start == CHOOSE n \in Range(numbers) : \A m \in Range(numbers) : n <= m
             expected == start..(start + Len(numbers) - 1)
             missing == expected \ Range(numbers)
         IN IF duplicates # {}
            THEN [valid |-> FALSE, message |-> "duplicates", numbers |-> duplicates]
            ELSE IF Range(numbers) # expected /\ missing # {}
            THEN [valid |-> FALSE, message |-> "missing", numbers |-> missing]
            ELSE [valid |-> TRUE, message |-> "none", numbers |-> {}]

FileName(stem) == [stem |-> stem, suffix |-> <<"m", "p", "4">>]

\* v-1.mp4, v-2.mp4, v-3.mp4, v-5.mp4, v-10.mp4, V-2.mp4, v-02.mp4, 01-a.mp4,
\* 2.mp4, a.mp4
SampleNames ==
    {FileName(<<"v", "-", "1">>), FileName(<<"v", "-", "2">>), FileName(<<"v", "-", "3">>),
     FileName(<<"v", "-", "5">>), FileName(<<"v", "-", "1", "0">>),
     FileName(<<"V", "-", "2">>), FileName(<<"v", "-", "0", "2">>),
     FileName(<<"0", "1", "-", "a">>), FileName(<<"2">>), FileName(<<"a">>)}

SorterInit ==
    /\ \E files \in SeqsUpTo(SampleNames, MaxNames), fn \in {"sort_files", "validate_sequence"} :
            call = [kind |-> fn, files |-> files]
    /\ ret = NoRet
    /\ states = EmptyMap
    /\ stateFile = NoFile
    /\ disk = {}
    /\ now = 0
    /\ demoted = {}
    /\ latest = EmptyMap
    /\ retBool = FALSE
    /\ retList = <<>>
    /\ BatchIdle

CallSortFiles ==
    /\ call.kind = "sort_files"
    /\ ret.raised = "not called"
    /\ ret' = SortFiles(call.files)
    /\ UNCHANGED <<storeVars, call, retBool, retList, batchVars, demoted>>

CallValidateSequence ==
    /\ call.kind = "validate_sequence"
    /\ ret.raised = "not called"
    /\ ret' = [raised |-> "none", value |-> ValidateSequence(call.files)]
    /\ UNCHANGED <<storeVars, call, retBool, retList, batchVars, demoted>>

SpecSorter == SorterInit /\ [][CallSortFiles \/ CallValidateSequence]_vars

\* ---- scanner.py: DirectoryScanner --------------------------------------------
DramaPrefix == <<"d", "r", "a", "m", "a", "-">>

\* DRAMA_DIR_PATTERN.match(name) for r'^drama-\d{4}$': the prefix, four
\* digits, and then the end of the name; without re.MULTILINE '$' matches at
\* the end and also just before a newline that ends the name
IsValidDramaDirName(name) ==
    /\ Len(name) >= Len(DramaPrefix) + 4
    /\ SubSeq(name, 1, Len(DramaPrefix)) = DramaPrefix
    /\ \A i \in (Len(DramaPrefix) + 1)..(Len(DramaPrefix) + 4) : IsDigit(name[i])
    /\ \/ Len(name) = Len(DramaPrefix) + 4
       \/ Len(name) = Len(DramaPrefix) + 5 /\ name[Len(name)] = "\n"

SubDirNames == {"video", "srt", "merged", "cleared"}

\* _check_subdirectory: original/<name> is a directory, or <name> is one
\* directly under the unit
CheckSubdirectory(entry, subdir_name) ==
    subdir_name \in entry.original \/ subdir_name \in entry.direct

\* _create_drama_directory
CreateDramaDirectory(name, entry) ==
    [name |-> name,
     has_video_dir |-> CheckSubdirectory(entry, "video"),
     has_srt_dir |-> CheckSubdirectory(entry, "srt"),
     has_merged_dir |-> CheckSubdirectory(entry, "merged"),
     has_cleared_dir |-> CheckSubdirectory(entry, "cleared")]

\* drama_dirs.sort(key=lambda d: d.name) over names that differ
RECURSIVE SortNames(_)
SortNames(names) ==
    IF names = {} THEN <<>>
    ELSE LET first == CHOOSE n \in names : \A o \in names \ {n} : StrLess(n, o)
         IN <<first>> \o SortNames(names \ {first})

\* scan_drama_root; root.entries maps the names found by iterdir to what they are
ScanDramaRoot(root) ==
    IF root.kind = "missing" THEN [raised |-> "FileNotFoundError", value |-> <<>>]
    ELSE IF root.kind # "dir" THEN [raised |-> "NotADirectoryError", value |-> <<>>]
    ELSE LET kept == {n \in DOMAIN root.entries :
                         root.entries[n].is_dir /\ IsValidDramaDirName(n)}
             order == SortNames(kept)
         IN [raised |-> "none",
             value |-> [i \in DOMAIN order |->
                           CreateDramaDirectory(order[i], root.entries[order[i]])]]

\* drama-0001, drama-0002, drama-001, drama-00012, drama-0001 with a newline
\* behind it, Drama-0001, drama-00a1
SampleDirNames ==
    {DramaPrefix \o <<"0", "0", "0", "1">>, DramaPrefix \o <<"0", "0", "0", "2">>,
     DramaPrefix \o <<"0", "0", "1">>, DramaPrefix \o <<"0", "0", "0", "1", "2">>,
     DramaPrefix \o <<"0", "0", "0", "1", "\n">>,
     <<"D", "r", "a", "m", "a", "-", "0", "0", "0", "1">>,
     DramaPrefix \o <<"0", "0", "a", "1">>}

\* what an entry of the root can be: a file or a directory, with the
\* sub-folders it has under original/ and directly
SampleEntries ==
    [is_dir : BOOLEAN,
     original : {{}, {"video", "srt"}, {"merged"}},
     direct : {{}, {"srt", "cleared"}, SubDirNames}]

SampleRoots ==
    {[kind |-> "missing", entries |-> EmptyMap], [kind |-> "file", entries |-> EmptyMap]}
    \cup {[kind |-> "dir", entries |-> e] :
              e \in UNION {[names -> SampleEntries] :
                              names \in {n \in SUBSET SampleDirNames : Cardinality(n) <= MaxEntries}}}

ScannerInit ==
    /\ \E root \in SampleRoots : call = [kind |-> "scan_drama_root", root |-> root]
    /\ ret = NoRet
    /\ states = EmptyMap
    /\ stateFile = NoFile
    /\ disk = {}
    /\ now = 0
    /\ demoted = {}
    /\ latest = EmptyMap
    /\ retBool = FALSE
    /\ retList = <<>>
    /\ BatchIdle

CallScanDramaRoot ==
    /\ ret.raised = "not called"
    /\ ret' = ScanDramaRoot(call.root)
    /\ UNCHANGED <<storeVars, call, retBool, retList, batchVars, demoted>>

SpecScanner == ScannerInit /\ [][CallScanDramaRoot]_vars

\* ---- Orchestrator.merge: the scanner's verdict, then VideoMerger.process ------
VideoDirMissing == "video directory does not exist"

\* validate_for_merge
ValidateForMerge(drama) == drama.has_video_dir

\* VideoMerger.process up to the merge itself: when original/ exists the
\* segments are looked for in original/video, else in video/; ffmpeg_ok tells
\* whether scanning and merging the segments then succeed
MergerProcess(entry, ffmpeg_ok) ==
    LET video_dir == IF entry.has_original THEN <<"original", "video">> ELSE <<"video">>
        exists == IF entry.has_original THEN "video" \in entry.original
                  ELSE "video" \in entry.direct
    IN IF ~exists
       THEN [status |-> "FAILED", video_dir |-> video_dir, error_message |-> VideoDirMissing]
       ELSE IF ~ffmpeg_ok
            THEN [status |-> "FAILED", video_dir |-> video_dir, error_message |-> "merge failed"]
            ELSE [status |-> "COMPLETED", video_dir |-> video_dir, error_message |-> NoMessage]

\* Orchestrator.merge of the unit root/name: the parent is scanned, the unit
\* must be among the scanned ones and pass validate_for_merge, then the merge
\* handler runs; whatever is raised becomes a failed result
OrchestratorMerge(root, name, ffmpeg_ok) ==
    LET drama_info == ScanDramaRoot(root)
        matching_dirs == IF drama_info.raised # "none" THEN {}
                         ELSE {i \in DOMAIN drama_info.value : drama_info.value[i].name = name}
    IN IF drama_info.raised # "none"
       THEN [status |-> "FAILED", video_dir |-> <<>>, error_message |-> drama_info.raised]
       ELSE IF matching_dirs = {}
       THEN [status |-> "FAILED", video_dir |-> <<>>, error_message |-> "name does not match"]
       ELSE IF ~ValidateForMerge(drama_info.value[CHOOSE i \in matching_dirs : TRUE])
       THEN [status |-> "FAILED", video_dir |-> <<>>, error_message |-> "structure not fit for merge"]
       ELSE MergerProcess(root.entries[name], ffmpeg_ok)

\* the layouts of a unit: whether original/ exists, the sub-folders under it
\* and the sub-folders directly under the unit
SampleLayouts ==
    {e \in [is_dir : BOOLEAN,
            has_original : BOOLEAN,
            original : {{}, {"video", "srt"}, {"merged"}},
            direct : {{}, {"srt", "cleared"}, SubDirNames}] :
        e.original # {} => e.has_original}

MergeCalls ==
    {[kind |-> "merge", root |-> [kind |-> "dir", entries |-> [n \in {name} |-> e]],
      name |-> name, ffmpeg_ok |-> ok] :
         name \in SampleDirNames, e \in SampleLayouts, ok \in BOOLEAN}

MergeUnitInit ==
    /\ call \in MergeCalls
    /\ ret = NoRet
    /\ states = EmptyMap
    /\ stateFile = NoFile
    /\ disk = {}
    /\ now = 0
    /\ demoted = {}
    /\ latest = EmptyMap
    /\ retBool = FALSE
    /\ retList = <<>>
    /\ BatchIdle

CallMerge ==
    /\ ret.raised = "not called"
    /\ ret' = [raised |-> "none",
               value |-> OrchestratorMerge(call.root, call.name, call.ffmpeg_ok)]
    /\ UNCHANGED <<storeVars, call, retBool, retList, batchVars, demoted>>

SpecMergeUnit == MergeUnitInit /\ [][CallMerge]_vars

\* ---- properties of the state store --------------------------------------
\* the record of the key is completed and all the output paths it names exist
CompletedOnDisk(u, o) ==
    \E k \in DOMAIN states :
        /\ k = <<u, o>>
        /\ states[k].status = "COMPLETED"
        /\ \A s \in Range(states[k].output_files) : PathOf(s) \in disk

\* C3: is_completed(unit, stage) returns true exactly when a record of the key
\* exists with status completed and every output path it records exists on
\* disk at the time of the call; for a key last marked completed with the
\* output list outs it returns true exactly while every path of outs exists,
\* whatever was created or deleted since the mark call.
C3_IsCompletedExact ==
    call.kind = "is_completed" =>
        /\ retBool \in BOOLEAN
        /\ retBool <=> CompletedOnDisk(call.unit, call.op)
        /\ \A k \in DOMAIN latest :
              (k = <<call.unit, call.op>> /\ latest[k].status = "COMPLETED")
                  => (retBool <=> Range(latest[k].outs) \subseteq disk)

\* C3 witness: is_completed has answered false for a key marked completed of
\* whose two outputs one exists and the other is missing
C3_Witness ==
    /\ call.kind = "is_completed"
    /\ retBool = FALSE
    /\ <<call.unit, call.op>> \in DOMAIN latest
    /\ latest[<<call.unit, call.op>>].status = "COMPLETED"
    /\ OutputFile(call.unit, call.op, 1) \in disk
    /\ OutputFile(call.unit, call.op, 2) \notin disk

\* C5: the store holds one record per key marked so far, each the record of
\* the latest mark call of its key (status, output paths, error message,
\* timestamp), and from the first mark call on the state file exists and
\* holds exactly the records in memory.
C5_MarkReplacesAndPersists ==
    /\ DOMAIN states = DOMAIN latest
    /\ \A k \in DOMAIN latest :
          /\ states[k].drama_dir = k[1]
          /\ states[k].operation = k[2]
          /\ states[k].status = latest[k].status
          /\ states[k].timestamp = latest[k].ts
          /\ states[k].error_message = latest[k].msg
          /\ Len(states[k].output_files) = Len(latest[k].outs)
          /\ \A i \in DOMAIN latest[k].outs :
                PathOf(states[k].output_files[i]) = latest[k].outs[i]
    /\ now > 0 =>
          /\ stateFile.exists
          /\ DOMAIN stateFile.data = DOMAIN states
          /\ \A k \in DOMAIN states :
                /\ stateFile.data[k].status = ProcessingStatusValue[states[k].status]
                /\ stateFile.data[k].output_files = states[k].output_files
                /\ stateFile.data[k].error_message = states[k].error_message
                /\ stateFile.data[k].timestamp = states[k].timestamp
          /\ LoadState(stateFile) = states

\* C5 witness: a second mark call has replaced the record of the only key
C5_Witness ==
    /\ call.kind \in {"mark_completed", "mark_failed"}
    /\ now = 2
    /\ DOMAIN states = {<<call.unit, call.op>>}
    /\ states[<<call.unit, call.op>>].timestamp = 1

\* C10: get_pending_tasks(units, stage) returns the units of the input list
\* for which is_completed is false, each as often as in the input and in input
\* order: the result is the input with the completed units struck out.
C10_PendingIsFilter ==
    call.kind = "get_pending_tasks" =>
        LET dirs == call.list
            keep == {i \in DOMAIN dirs : ~CompletedOnDisk(dirs[i], call.op)}
        IN /\ Len(retList) = Cardinality(keep)
           /\ \E f \in [DOMAIN retList -> keep] :
                 /\ \A i, j \in DOMAIN retList : i < j => f[i] < f[j]
                 /\ \A i \in DOMAIN retList : retList[i] = dirs[f[i]]

\* C10 witness: unit 1 completed, unit 2 not: get_pending_tasks([1, 2]) = [2]
C10_Witness ==
    /\ call.kind = "get_pending_tasks"
    /\ call.list = <<1, 2>>
    /\ CompletedOnDisk(1, call.op)
    /\ ~CompletedOnDisk(2, call.op)
    /\ retList = <<2>>

\* ---- properties of a batch ------------------------------------------------
Count(seq, x) == Cardinality({i \in DOMAIN seq : seq[i] = x})

Finished(u) == Count(log[u], "run") > 0

Dispatched == pc \in {"mark", "returned"}

\* C1: failure isolation. When process_batch has dispatched its units
\* (sequentially or concurrently) the result list holds exactly one result per
\* dispatched unit, each completed or failed, and the stage handler has run
\* exactly once for every dispatched unit, whatever the results of the units
\* before it; the only unit whose handler does not run is one whose own start
\* notification raised, and a batch never ends early unless a callback raised.
C1_FailureIsolation ==
    /\ Dispatched =>
         /\ Len(results) = Len(pendingDirs)
         /\ \A i \in DOMAIN pendingDirs :
              /\ results[i].status \in {"COMPLETED", "FAILED"}
              /\ Count(log[pendingDirs[i]], "run") =
                   IF Count(log[pendingDirs[i]], "start raised") > 0 THEN 0 ELSE 1
              /\ Cardinality({j \in DOMAIN results :
                                 results[j].input_path = pendingDirs[i]}) = 1
    /\ pc = "aborted" => cb = "faulty"
    /\ \A u \in Units : Count(log[u], "start raised") > 0 => cb = "faulty"

C1_Witness ==
    /\ pc = "returned"
    /\ maxWorkers = 1
    /\ Len(pendingDirs) = 2
    /\ results[1].status = "FAILED"
    /\ results[2].status = "COMPLETED"
    /\ Finished(pendingDirs[2])

\* C2: concurrent index alignment. With max_workers > 1, when the results are
\* returned the list is as long as the list of dispatched units, no slot is
\* empty, the i-th result carries the i-th unit as its input_path and is the
\* result the i-th future produced, for every order of completion.
C2_IndexAligned ==
    (Dispatched /\ maxWorkers > 1) =>
        /\ Len(results) = Len(pendingDirs)
        /\ \A i \in DOMAIN pendingDirs :
             /\ results[i] # NoResult
             /\ results[i].input_path = pendingDirs[i]
             /\ results[i] = IF task[i].exc THEN ExceptionResult(pendingDirs[i])
                             ELSE StageResult(pendingDirs[i], operation,
                                              plan[pendingDirs[i]])

C2_Witness ==
    /\ pc = "returned"
    /\ maxWorkers > 1
    /\ collected = <<2, 1>>
    /\ results[1].status = "COMPLETED"
    /\ results[2].status = "FAILED"

\* C4: crash safety of progress, as the specification states it. When the
\* process has crashed during a batch, every unit whose handler had finished
\* has, in the state file, a record of this batch with the status of its result.
C4_CrashKeepsFinishedUnits ==
    (pc = "crashed" /\ config.enable_resume) =>
        \A u \in Units :
            Finished(u) =>
                /\ stateFile.exists
                /\ GetStateKey(u, operation) \in DOMAIN stateFile.data
                /\ stateFile.data[GetStateKey(u, operation)].status =
                     ProcessingStatusValue[StageResult(u, operation, plan[u]).status]
                /\ (GetStateKey(u, operation) \in DOMAIN startStates =>
                      stateFile.data[GetStateKey(u, operation)].timestamp >
                        startStates[GetStateKey(u, operation)].timestamp)

\* a unit has, in the records st, a completed record of the stage whose output
\* paths are all in dk
CompletedAt(st, dk, u, o) ==
    \E k \in DOMAIN st :
        /\ k = <<u, o>>
        /\ st[k].status = "COMPLETED"
        /\ \A s \in Range(st[k].output_files) : PathOf(s) \in dk

ResultsOf(u) == {i \in DOMAIN results : results[i] # NoResult /\ results[i].input_path = u}

\* C6: the skip_completed filter. In a batch started with skip_completed, a
\* unit that was completed when the batch started is not dispatched: its
\* handler is not run, it gets no notification and no result, and its record in
\* memory and in the file stays what it was; when every unit was completed the
\* call has returned the empty list without running anything.
C6_SkipCompletedFilter ==
    (pc # "idle" /\ skip) =>
        /\ \A u \in Units :
             CompletedAt(startStates, startDisk, u, operation) =>
                 /\ u \notin Range(pendingDirs)
                 /\ log[u] = <<>>
                 /\ plan[u] = NoPlan
                 /\ ResultsOf(u) = {}
                 /\ states[<<u, operation>>] = startStates[<<u, operation>>]
                 /\ stateFile.data[<<u, operation>>] =
                      SaveStateData(startStates)[<<u, operation>>]
        /\ (\A u \in Units : CompletedAt(startStates, startDisk, u, operation)) =>
                 /\ pc = "returned"
                 /\ results = <<>>
                 /\ states = startStates

C6_Witness ==
    /\ pc = "returned"
    /\ skip
    /\ CompletedAt(startStates, startDisk, 1, operation)
    /\ pendingDirs = <<2>>
    /\ Len(results) = 1
    /\ Finished(2)

C6_WitnessAllCompleted ==
    /\ pc = "returned"
    /\ skip
    /\ \A u \in Units : CompletedAt(startStates, startDisk, u, operation)

\* C7: the recovery chain, as the specification states it. A unit whose stage
\* raises a retryable error on fewer invocations than the retry budget allows
\* ends with a completed result, a unit whose stage fails on every invocation
\* ends with a failed result.
C7_RetryThenComplete ==
    Dispatched =>
        \A i \in DOMAIN results :
            LET pl == plan[results[i].input_path] IN
            pl # NoPlan =>
                results[i].status =
                    IF pl.failures = 0 \/ (pl.err = "io" /\ pl.failures <= MaxRetries)
                    THEN "COMPLETED" ELSE "FAILED"

C9_FailedIsRunAgain ==
    /\ \A k \in DOMAIN states : states[k].status \in {"COMPLETED", "FAILED"}
    /\ \A k \in DOMAIN stateFile.data :
         stateFile.data[k].status \in {"completed", "failed"}
    /\ (pc # "idle" /\ skip) =>
         \A u \in Units :
             LET k == GetStateKey(u, operation) IN
             (k \in DOMAIN startStates /\ startStates[k].status = "FAILED") =>
                 /\ u \in Range(pendingDirs)
                 /\ pc = "returned" =>
                      /\ Finished(u) \/ Count(log[u], "start raised") > 0
                      /\ \E i \in ResultsOf(u) : states[k].status = results[i].status
                      /\ states[k].timestamp > startStates[k].timestamp
                      /\ stateFile.data[k].timestamp = states[k].timestamp

C9_Witness ==
    /\ pc = "returned"
    /\ skip
    /\ GetStateKey(1, operation) \in DOMAIN startStates
    /\ startStates[GetStateKey(1, operation)].status = "FAILED"
    /\ states[GetStateKey(1, operation)].status = "COMPLETED"
    /\ Finished(1)

\* ---- properties of load_state ---------------------------------------------
\* the fields a record of the state file must have
RequiredFields == {"drama_dir", "operation", "status", "timestamp", "output_files"}

Malformed(rec) ==
    \/ ~(RequiredFields \subseteq DOMAIN rec)
    \/ rec.status \notin Range(ProcessingStatusValue)

BadContent(f) ==
    /\ f.exists
    /\ \/ f.json # "object"
       \/ \E k \in DOMAIN f.data : Malformed(f.data[k])

\* C11: loading never fails on bad content, as the specification states it.
\* When load_state has run on a file that is no JSON text, whose top-level
\* value is no object, or one of whose records is no object, lacks a field or
\* has an unknown status, it has raised nothing and the store is empty.
C11_LoadNeverFails ==
    (call.kind = "load_state" /\ BadContent(stateFile)) =>
        /\ ret.raised = "none"
        /\ states = EmptyMap

\* ---- properties of the unit boundary and of a run ---------------------------
\* C12: unexpected errors stay inside their unit, as the specification states
\* it. process_batch never raises because of one unit: an exception raised in
\* the dispatch of a unit, the progress notification included, leaves that unit
\* with a failed result, and the units after it are still processed.
C12_UnexpectedErrorIsCaught ==
    /\ pc # "aborted"
    /\ Dispatched =>
         \A u \in Units :
             Count(log[u], "start raised") > 0 =>
                 \E i \in ResultsOf(u) : results[i].status = "FAILED"

\* C13: the success flag of a run, as the specification states it. When
\* run_merge / run_separate / run_transcode has returned over at least one
\* discovered unit, every discovered unit was either dropped as completed or
\* has the result of its own stage, and the flag is true exactly when no
\* result is failed.
C13_SuccessFlag ==
    (pc \in {"returned", "rejected"} /\ cb = "tracker" /\ skip = config.enable_resume) =>
        /\ \A i \in DOMAIN DramaDirs :
             \/ CompletedAt(startStates, startDisk, DramaDirs[i], operation)
             \/ \E j \in ResultsOf(DramaDirs[i]) :
                    results[j] = StageResult(DramaDirs[i], operation, plan[DramaDirs[i]])
        /\ ret.raised = "none"
        /\ ret.value = (\A i \in DOMAIN results : results[i].status = "COMPLETED")

\* ---- properties of merge_subtitles -----------------------------------------
Merged == call.kind = "merge_subtitles" /\ ret.raised = "none" /\ ret.value.output.how = "merge"

\* the sum of the durations of the segments before the i-th
RECURSIVE DurationsBefore(_, _)
DurationsBefore(vids, i) ==
    IF i <= 1 THEN 0
    ELSE DurationsBefore(vids, i - 1) + (IF i - 1 <= Len(vids) THEN vids[i - 1] ELSE 0)

\* the number of entries of the files before the i-th
RECURSIVE EntriesBefore(_, _)
EntriesBefore(segs, i) ==
    IF i <= 1 THEN 0 ELSE EntriesBefore(segs, i - 1) + Len(segs[i - 1].entries)

C15_MismatchRaisesFirst ==
    (/\ call.kind = "merge_subtitles"
     /\ ret.raised # "not called"
     /\ \E i, j \in DOMAIN call.segments : call.segments[i].format # call.segments[j].format)
        => /\ ret.raised = "ValueError: format mismatch"
           /\ ret.value.parsed = <<>>
           /\ ~ret.value.mkdir
           /\ ~ret.value.output.written

C15_Witness ==
    /\ call.kind = "merge_subtitles"
    /\ Len(call.segments) = 3
    /\ call.segments[1].format = call.segments[2].format
    /\ call.segments[3].format # call.segments[1].format
    /\ ret.raised = "ValueError: format mismatch"

\* C16: the ordering invariant, as the specification states it. Every timeline
\* merge_subtitles has written is indexed 1, 2, 3, ... and its start times never
\* decrease in index order.
C16_TimelineOrdered ==
    (call.kind = "merge_subtitles" /\ ret.raised = "none" /\ ret.value.output.written) =>
        LET out == ret.value.output.entries
        IN /\ \A k \in DOMAIN out : out[k].index = k
           /\ \A k \in DOMAIN out : k > 1 => out[k - 1].start_time <= out[k].start_time

\* ---- properties of the file sorter ------------------------------------------
Sorted == call.kind = "sort_files" /\ ret.raised # "not called"

\* C17: sort_files succeeds for every list of names, also one that mixes a name
\* starting with a digit run and a name starting with a text run, and returns
\* the names of the list in natural order: no name stands before a name whose
\* key (numbers by value, text in lower case) is smaller.
C17_SortSucceedsInNaturalOrder ==
    Sorted =>
        /\ ret.raised = "none"
        /\ Len(ret.value) = Len(call.files)
        /\ \A f \in SampleNames :
               Cardinality({i \in DOMAIN ret.value : ret.value[i] = f})
                   = Cardinality({i \in DOMAIN call.files : call.files[i] = f})
        /\ \A i, j \in DOMAIN ret.value :
               i < j => KeyLess(NaturalSortKey(ret.value[j]), NaturalSortKey(ret.value[i])) = "false"

Validated == call.kind = "validate_sequence" /\ ret.raised # "not called"

PrimaryNumbers == {PrimaryNumber(call.files[i]) : i \in DOMAIN call.files}

Repeated ==
    {n \in PrimaryNumbers :
        Cardinality({i \in DOMAIN call.files : PrimaryNumber(call.files[i]) = n}) > 1}

Absent ==
    {n \in 0..10 : /\ n \notin PrimaryNumbers
                   /\ \E lo, hi \in PrimaryNumbers : lo < n /\ n < hi}

\* C18: validate_sequence calls an empty list invalid with the 'empty' message,
\* a list with a repeated primary number invalid with the repeated numbers,
\* and any other list valid exactly when no integer between its smallest and
\* largest number is absent; an invalid one reports every absent integer.
C18_ValidateSequence ==
    Validated =>
        IF call.files = <<>>
        THEN ret.value = [valid |-> FALSE, message |-> "empty", numbers |-> {}]
        ELSE IF Repeated # {}
        THEN ret.value = [valid |-> FALSE, message |-> "duplicates", numbers |-> Repeated]
        ELSE IF Absent # {}
        THEN ret.value = [valid |-> FALSE, message |-> "missing", numbers |-> Absent]
        ELSE ret.value = [valid |-> TRUE, message |-> "none", numbers |-> {}]

\* ---- properties of the directory scanner ------------------------------------
Scanned == call.kind = "scan_drama_root" /\ ret.raised # "not called" /\ call.root.kind = "dir"

\* a name made of 'drama-' and exactly four digits
IsDramaName(name) ==
    /\ Len(name) = Len(DramaPrefix) + 4
    /\ SubSeq(name, 1, Len(DramaPrefix)) = DramaPrefix
    /\ \A i \in (Len(DramaPrefix) + 1)..(Len(DramaPrefix) + 4) : IsDigit(name[i])

\* C19: scan_drama_root returns exactly the directories of the root named
\* 'drama-' plus exactly four digits, in ascending order of name, each with a
\* flag per sub-folder that is true exactly when the sub-folder exists under
\* original/ or directly under the unit; a unit without sub-folders is
\* returned with four false flags.
C19_ScanReturnsMatchingUnits ==
    Scanned =>
        LET entries == call.root.entries
            units == {n \in DOMAIN entries : entries[n].is_dir /\ IsDramaName(n)}
        IN /\ ret.raised = "none"
           /\ {ret.value[i].name : i \in DOMAIN ret.value} = units
           /\ Len(ret.value) = Cardinality(units)
           /\ \A i, j \in DOMAIN ret.value :
                  i < j => StrLess(ret.value[i].name, ret.value[j].name)
           /\ \A i \in DOMAIN ret.value :
                  LET d == ret.value[i]
                      has(sub) == sub \in entries[d.name].original \cup entries[d.name].direct
                  IN /\ d.has_video_dir = has("video")
                     /\ d.has_srt_dir = has("srt")
                     /\ d.has_merged_dir = has("merged")
                     /\ d.has_cleared_dir = has("cleared")

\* ---- properties of the durable write ----------------------------------------
\* C20: at every point of mark_completed / mark_failed and of save_state, and
\* after a crash at any of them, the state file can be read, holds every
\* record it held before the call, and loads as the record set before the
\* call or as the record set after it.
C20_SaveIsAtomic ==
    /\ stateFile.json # "invalid"
    /\ LoadOutcome(stateFile).raised = "none"
    /\ \A k \in DOMAIN startStates : k \in DOMAIN LoadState(stateFile)
    /\ \/ LoadState(stateFile) = startStates
       \/ pc # "crashed" /\ LoadState(stateFile) = states

\* ---- properties of the worker threads ---------------------------------------
\* the worker is inside a with block of process_single: in a callback or at
\* the update of the counter
InLockedSection(w) == worker[w].pos = "callback"

\* C21: in concurrent mode no two workers are at the same time inside a
\* progress callback or the update of the shared counter, the first calls,
\* which create the lock, included.
C21_CallbacksSerialised ==
    \A v, w \in Workers : v # w => ~(InLockedSection(v) /\ InLockedSection(w))

HandlersRunning == {w \in 1..MaxWorkers : worker[w].pos = "handler"}

\* C22: at most max_workers stage handlers run at any moment; a worker holds
\* one unit at a time and takes the next one only when process_single has
\* returned for the one it held; every submitted unit is run in the end.
C22_PoolBoundsHandlers ==
    /\ [](/\ Cardinality(HandlersRunning) <= maxWorkers
          /\ Cardinality({i \in DOMAIN task : task[i].st = "running"}) <= maxWorkers
          /\ \A v, w \in 1..MaxWorkers :
                 (v # w /\ worker[v].i # 0) => worker[v].i # worker[w].i)
    /\ [][\A w \in 1..MaxWorkers :
             worker'[w].i # worker[w].i =>
                 \/ worker[w].i = 0 /\ task[worker'[w].i].st = "queued"
                 \/ worker'[w].i = 0 /\ task'[worker[w].i].st = "done"]_vars
    /\ <>(\A i \in DOMAIN task : task[i].st = "done" /\ task[i].result # NoResult)

C22_Witness ==
    /\ maxWorkers = 1
    /\ task[1].st = "done"
    /\ worker[1].i = 2
    /\ worker[1].pos = "handler"

C22_WitnessFullPool ==
    /\ maxWorkers = 2
    /\ Cardinality(HandlersRunning) = 2

\* ---- properties of the error recovery chain ---------------------------------
Handled == call.kind = "handle" /\ ret.raised # "not called"

\* the strategy calls of the latest handle that are can_recover calls
CanCalls == {j \in DOMAIN ret.value.trace : ret.value.trace[j].what = "can_recover"}

\* C23: handle asks the strategies in registration order; recover is called
\* exactly on the strategies that claim the error; handle returns true at the
\* first recover that returns true and calls no strategy after it; a strategy
\* that declines, returns false or raises is passed over; handle returns
\* false exactly when no recover returned true, after every strategy was
\* asked, and so when none is registered.
C23_HandleChain ==
    Handled =>
        LET T == ret.value.trace
            S == call.strategies
        IN /\ \A j \in CanCalls : T[j].k = Cardinality({i \in CanCalls : i <= j})
           /\ \A j \in DOMAIN T :
                  S[T[j].k].kind = "stub" =>
                      T[j].answer = IF T[j].what = "can_recover"
                                    THEN Answer(S[T[j].k].can) ELSE S[T[j].k].rec
           /\ \A j \in CanCalls :
                  T[j].answer = "true" <=>
                      /\ j + 1 \in DOMAIN T
                      /\ T[j + 1].what = "recover"
                      /\ T[j + 1].k = T[j].k
           /\ \A j \in DOMAIN T \ CanCalls :
                  j > 1 /\ T[j - 1].what = "can_recover" /\ T[j - 1].k = T[j].k
           /\ ret.value.value <=>
                  (T # <<>> /\ T[Len(T)].what = "recover" /\ T[Len(T)].answer = "true")
           /\ \A j \in DOMAIN T :
                  (T[j].what = "recover" /\ T[j].answer = "true") => j = Len(T)
           /\ ~ret.value.value => Cardinality(CanCalls) = Len(S)

C23_Witness ==
    /\ Handled
    /\ Len(call.strategies) = 2
    /\ call.strategies[1].kind = "stub"
    /\ call.strategies[1].can
    /\ call.strategies[1].rec = "raise"
    /\ call.strategies[2].kind = "stub"
    /\ ret.value.value
    /\ Len(ret.value.trace) = 4

Recovered == call.kind = "recover" /\ ret.raised # "not called"

\* C24: RetryStrategy.recover returns; it invokes the operation at most
\* max_retries minus retry_count times (max_retries times from 0), returns true
\* at the first invocation that succeeds and false otherwise; at or beyond the
\* limit it returns false at once and invokes nothing; retry_count never
\* shrinks and has grown by one for each invocation that failed.
C24_RetryIsBounded ==
    Recovered =>
        LET m == call.strategies[1].max_retries
            c0 == call.context
            c1 == ret.value.context
            ok == ret.value.value
        IN /\ ret.value.raised = "none"
           /\ c1.invoked <= IF m > c0.retry_count THEN m - c0.retry_count ELSE 0
           /\ ok <=> (c0.operation.present /\ c0.retry_count + c0.operation.fails < m)
           /\ ok => c1.invoked = c0.operation.fails + 1
           /\ c0.retry_count >= m => (~ok /\ c1 = c0)
           /\ c1.retry_count >= c0.retry_count
           /\ c1.retry_count - c0.retry_count = c1.invoked - (IF ok THEN 1 ELSE 0)

C24_Witness ==
    /\ Recovered
    /\ call.strategies[1].max_retries = MaxRetries
    /\ call.context.retry_count = 0
    /\ call.context.operation.present
    /\ call.context.operation.fails = MaxRetries - 1
    /\ ret.value.value
    /\ ret.value.context.invoked = MaxRetries

C24_WitnessGivesUp ==
    /\ Recovered
    /\ call.strategies[1].max_retries = MaxRetries
    /\ call.context.retry_count = 0
    /\ call.context.operation.fails = MaxRetries + 1
    /\ ~ret.value.value
    /\ ret.value.context.invoked = MaxRetries
    /\ ret.value.context.retry_count = MaxRetries

\* the classes of the sample that are I/O, OS or timeout errors
OsErrors == {"OSError", "TimeoutError", "FileNotFoundError"}

ExternalProcessErrors == {"FFmpegError", "AudioSeparationError"}

\* C25: SkipStrategy claims exactly the validation errors and its recover
\* returns true; RetryStrategy claims exactly the I/O, OS and timeout errors;
\* nothing but a RetryStrategy invokes the operation; with RetryStrategy and
\* SkipStrategy registered an external-process error is claimed by neither,
\* handle returns false and the operation is not invoked.
C25_Classification ==
    Handled =>
        LET T == ret.value.trace
            S == call.strategies
            e == call.error
        IN /\ \A j \in DOMAIN T :
                  /\ (S[T[j].k].kind = "skip" /\ T[j].what = "can_recover") =>
                         T[j].answer = Answer(e = "ValidationError")
                  /\ (S[T[j].k].kind = "skip" /\ T[j].what = "recover") => T[j].answer = "true"
                  /\ (S[T[j].k].kind = "retry" /\ T[j].what = "can_recover") =>
                         T[j].answer = Answer(e \in OsErrors)
           /\ (\A j \in DOMAIN T : ~(S[T[j].k].kind = "retry" /\ T[j].what = "recover")) =>
                  ret.value.context = call.context
           /\ (e \in ExternalProcessErrors /\ \A k \in DOMAIN S : S[k].kind \in {"retry", "skip"}) =>
                  /\ ~ret.value.value
                  /\ ret.value.context.invoked = 0
                  /\ \A j \in DOMAIN T : T[j].what = "can_recover" /\ T[j].answer = "false"

C25_Witness ==
    /\ Handled
    /\ Len(call.strategies) = 2
    /\ call.strategies[1].kind = "retry"
    /\ call.strategies[1].max_retries = MaxRetries
    /\ call.strategies[2].kind = "skip"
    /\ call.error = "FFmpegError"
    /\ call.context.retry_count = 0
    /\ call.context.operation.present
    /\ ~ret.value.value
    /\ Len(ret.value.trace) = 2

\* ---- properties of the notifications ----------------------------------------
\* C26: with a progress callback every dispatched unit has got one start
\* notification, then one run of its handler, then one complete
\* notification, in sequential and in concurrent mode.
C26_NotifiedOnce ==
    (cb = "tracker" /\ pc \in {"mark", "returned"}) =>
        \A i \in DOMAIN pendingDirs :
            LET l == log[pendingDirs[i]]
            IN /\ Count(l, "start") = 1
               /\ Count(l, "run") = 1
               /\ Count(l, "complete") = 1
               /\ l = <<"start", "run", "complete">>

\* ---- properties of the stage report ------------------------------------------
\* the entries of the saved report that name the unit
ListedIn(d, u) ==
    Cardinality({j \in DOMAIN d.successful_tasks : d.successful_tasks[j] = u})
    + Cardinality({j \in DOMAIN d.failed_tasks : d.failed_tasks[j].path = u})
    + Cardinality({j \in DOMAIN d.skipped_tasks : d.skipped_tasks[j].path = u})

\* C27: in every saved report the successful, failed and skipped counts add up
\* to total_tasks, and every unit handed to process_batch is listed in exactly
\* one of the three lists, also when skip_completed dropped completed units.
C27_ReportAddsUp ==
    ReportSaved =>
        LET d == SavedReport
        IN /\ d.successful_count + d.failed_count + d.skipped_count = d.total_tasks
           /\ \A i \in DOMAIN DramaDirs : ListedIn(d, DramaDirs[i]) = 1

\* ---- properties of Orchestrator.merge ----------------------------------------
MergeCalled == call.kind = "merge" /\ ret.raised # "not called"

\* the scanner marks the unit of the call eligible for merge
EligibleForMerge ==
    LET scan == ScanDramaRoot(call.root)
    IN /\ scan.raised = "none"
       /\ \E i \in DOMAIN scan.value :
            scan.value[i].name = call.name /\ ValidateForMerge(scan.value[i])

\* C28: for every unit the scanner marks eligible for merge the merge handler
\* locates a segment folder that exists and does not fail with "video
\* directory does not exist", also when original/ exists without a video/
\* folder while video/ lies directly under the unit.
C28_ScannerAndMergerAgree ==
    (MergeCalled /\ EligibleForMerge) =>
        LET e == call.root.entries[call.name]
            r == ret.value
        IN /\ r.error_message # VideoDirMissing
           /\ \/ r.video_dir = <<"original", "video">> /\ "video" \in e.original
              \/ r.video_dir = <<"video">> /\ "video" \in e.direct

\* ---- properties of the queries of the state store ---------------------------
\* every output the record of the key names exists
OutputsExist(k) ==
    \A i \in DOMAIN states[k].output_files : PathOf(states[k].output_files[i]) \in disk

QueryKinds == {"is_completed", "get_pending_tasks"}

\* C29: is_completed and get_pending_tasks change neither the records nor the
\* state file; a completed record once reported not completed for a missing
\* output stays completed in the records and in the file, and as soon as its
\* outputs exist again the unit is reported completed again.
C29_QueriesChangeNothing ==
    /\ [][call'.kind \in QueryKinds => (states' = states /\ stateFile' = stateFile)]_vars
    /\ [](\A k \in demoted :
             /\ k \in DOMAIN states
             /\ states[k].status = "COMPLETED"
             /\ k \in DOMAIN LoadState(stateFile)
             /\ LoadState(stateFile)[k] = states[k])
    /\ []((/\ call.kind = "is_completed"
           /\ GetStateKey(call.unit, call.op) \in demoted
           /\ OutputsExist(GetStateKey(call.unit, call.op))) => retBool)
    /\ [](call.kind = "get_pending_tasks" =>
             \A i \in DOMAIN call.list :
                 LET k == GetStateKey(call.list[i], call.op)
                 IN (k \in demoted /\ OutputsExist(k)) => call.list[i] \notin Range(retList))

C29_Witness ==
    /\ call.kind = "is_completed"
    /\ GetStateKey(call.unit, call.op) \in demoted
    /\ states[GetStateKey(call.unit, call.op)].output_files # <<>>
    /\ retBool

C29_WitnessPending ==
    /\ call.kind = "get_pending_tasks"
    /\ \E i \in DOMAIN call.list :
         /\ GetStateKey(call.list[i], call.op) \in demoted
         /\ call.list[i] \notin Range(retList)
    /\ \E i \in DOMAIN call.list :
         /\ GetStateKey(call.list[i], call.op) \in demoted
         /\ call.list[i] \in Range(retList)

\* ---- properties of two runs in a row ----------------------------------------
\* the units of the failed results, in the order of the results
FailedUnits(rs) ==
    LET failed == TasksWithStatus(rs, "FAILED")
    IN [j \in DOMAIN failed |-> failed[j].input_path]

\* a first run with skip_completed has returned, every output it made is still
\* on disk, and a second run of the same stage with skip_completed starts
SecondRunStarts ==
    /\ config.enable_resume
    /\ pc = "returned"
    /\ runs = 1
    /\ skip
    /\ \A i \in DOMAIN results : Range(results[i].output_path) \subseteq disk
    /\ runs' = 2
    /\ skip'
    /\ operation' = operation

\* C30: resume idempotence. When the resumable process_batch is run twice over
\* the same units with skip_completed and no output is deleted in between, the
\* second run dispatches exactly the units whose result of the first run was
\* failed; a unit completed in the first run keeps its record through the
\* reload, gets no handler run, no notification and no result in the second
\* run and its record stays what it was; the dispatched units are run again.
C30_ResumeIdempotence ==
    /\ [][SecondRunStarts =>
            /\ Len(results) = Len(DramaDirs)
            /\ pendingDirs' = FailedUnits(results)
            /\ \A i \in DOMAIN results :
                 results[i].status = "COMPLETED" =>
                     LET k == GetStateKey(results[i].input_path, operation)
                     IN /\ states'[k] = states[k]
                        /\ startStates'[k] = states[k]
                        /\ results[i].input_path \notin Range(pendingDirs')]_vars
    /\ []((config.enable_resume /\ runs = 2 /\ skip) =>
             /\ \A u \in Units \ Range(pendingDirs) :
                  LET k == GetStateKey(u, operation)
                  IN /\ log[u] = <<>>
                     /\ plan[u] = NoPlan
                     /\ ResultsOf(u) = {}
                     /\ states[k] = startStates[k]
                     /\ stateFile.data[k] = SaveStateData(startStates)[k]
             /\ pc = "returned" =>
                  \A u \in Range(pendingDirs) :
                      /\ Finished(u) \/ Count(log[u], "start raised") > 0
                      /\ ResultsOf(u) # {})

C30_Witness ==
    /\ config.enable_resume
    /\ runs = 2
    /\ skip
    /\ pc = "returned"
    /\ pendingDirs = <<1>>
    /\ DOMAIN startStates = {GetStateKey(1, operation), GetStateKey(2, operation)}
    /\ startStates[GetStateKey(1, operation)].status = "FAILED"
    /\ startStates[GetStateKey(2, operation)].status = "COMPLETED"
    /\ states[GetStateKey(2, operation)] = startStates[GetStateKey(2, operation)]
    /\ log[2] = <<>>
    /\ Finished(1)
    /\ states[GetStateKey(1, operation)].timestamp > startStates[GetStateKey(1, operation)].timestamp

====
